---- MODULE Spec2Model ----
(***************************************************************************)
(* The OPD token allocation engine (src/src/services/TokenAllocationEngine *)
(* .js with the data classes of src/src/models/index.js) as a state        *)
(* machine.  Every public method of TokenAllocationEngine is one action;   *)
(* the private helpers are operators on an engine record                   *)
(*   [doctors, tokens, waitingQueue, objs, bumped]                         *)
(* that they thread through exactly as the JavaScript mutates `this`.      *)
(* Token objects are shared by reference between the registry, the slots   *)
(* and the waiting queue, so the containers hold token ids and the objects *)
(* themselves live in `objs`.                                              *)
(***************************************************************************)
EXTENDS Integers, Sequences, FiniteSets, TLC

VARIABLES
  doctors,       \* this.doctors: doctorId -> Doctor (workingHours, slots)
  tokens,        \* this.tokens: ids of the registered Token objects
  waitingQueue,  \* this.waitingQueue: sequence of token ids
  objs,          \* the Token objects created so far, by id
  result,        \* the last call made on the engine and what it returned
  http,          \* the requests received by routes/api.js, by arrival, each
                 \* waiting for its handler or answered
  pass           \* the locals of a processWaitingQueue call that is followed
                 \* iteration by iteration, NoPass when none is

vars == <<doctors, tokens, waitingQueue, objs, result, http, pass>>

-----------------------------------------------------------------------------
(* Bounds of the model and the inputs the callers draw from *)

\* Slot's constructor parameter maxCapacity (default 10, models/index.js:20),
\* scaled down so that full slots and evictions are reached.
MaxCapacity == 2

\* Number of Token objects created in one behaviour.
MaxTokens == 3

DoctorIds == {"D1"}
UnknownDoctorId == "D9"
WorkingHours == {[start |-> "09:00", end |-> "11:00"]}
Times == {"09:00", "13:00"}
Sources == {"walkin", "priority"}
UnknownTokenIds == {99}

-----------------------------------------------------------------------------
(* Time strings *)

Minutes == {"00", "30"}

\* n.toString().padStart(2, '0')
padStart2(s) == IF Len(s) < 2 THEN "0" \o s ELSE s

\* `${hour.toString().padStart(2, '0')}:00`
hourString(hour) == padStart2(ToString(hour)) \o ":00"

\* The texts whose part before ':' parseInt reads as h.
TextsOfHour(h) ==
  {ToString(h) \o ":" \o mm : mm \in Minutes} \cup
  {padStart2(ToString(h)) \o ":" \o mm : mm \in Minutes}

ParsableHours == 0..23

\* parseInt(time.split(':')[0]), tabulated over the well-formed texts
hourOfText ==
  [time \in UNION {TextsOfHour(h) : h \in ParsableHours} |->
     CHOOSE h \in ParsableHours : time \in TextsOfHour(h)]

parseHour(time) == hourOfText[time]

\* `${doctorId}-${startTime}`
slotKeyOf(doctorId, slotTime) == doctorId \o "-" \o slotTime

-----------------------------------------------------------------------------
(* models/index.js *)

TOKEN_SOURCES ==
  << [name |-> "emergency", priority |-> 10],
     [name |-> "priority",  priority |-> 8],
     [name |-> "followup",  priority |-> 6],
     [name |-> "online",    priority |-> 4],
     [name |-> "walkin",    priority |-> 2] >>

EMERGENCY == TOKEN_SOURCES[1]
WALKIN == TOKEN_SOURCES[5]

STATUS_ALLOCATED == "allocated"
STATUS_CANCELLED == "cancelled"

\* new Slot(doctorId, startTime, endTime, maxCapacity)
Slot(doctorId, startTime, endTime, maxCapacity) ==
  [doctorId |-> doctorId, startTime |-> startTime, endTime |-> endTime,
   maxCapacity |-> maxCapacity, tokens |-> << >>,
   availableCapacity |-> maxCapacity]

\* Slot.addToken: [slot, ok]
addToken(slot, id) ==
  IF slot.availableCapacity > 0
  THEN [slot |-> [slot EXCEPT !.tokens = Append(@, id),
                              !.availableCapacity = @ - 1],
        ok |-> TRUE]
  ELSE [slot |-> slot, ok |-> FALSE]

\* tokens.findIndex(t => t.id === tokenId), 0 for -1
findIndex(tokenSeq, id) ==
  LET hits == {i \in 1..Len(tokenSeq) : tokenSeq[i] = id}
  IN IF hits = {} THEN 0 ELSE CHOOSE i \in hits : \A j \in hits : i <= j

\* tokens.splice(index, 1)
splice1(tokenSeq, index) ==
  SubSeq(tokenSeq, 1, index - 1) \o SubSeq(tokenSeq, index + 1, Len(tokenSeq))

\* removeToken without the index check: the counter is raised even when
\* the token is not among the slot's tokens
removeToken_unchecked(slot, id) ==
  LET index == findIndex(slot.tokens, id)
  IN [slot |-> [slot EXCEPT !.tokens = IF index # 0 THEN splice1(@, index) ELSE @,
                            !.availableCapacity = @ + 1],
      ok |-> TRUE]

\* Slot.removeToken: [slot, ok]
removeToken(slot, id) ==
  LET index == findIndex(slot.tokens, id)
  IN IF index # 0
     THEN [slot |-> [slot EXCEPT !.tokens = splice1(@, index),
                                 !.availableCapacity = @ + 1],
           ok |-> TRUE]
     ELSE [slot |-> slot, ok |-> FALSE]

\* new Token(patientId, doctorId, slotTime, source, priority)
Token(id, doctorId, slotTime, source, priority) ==
  [id |-> id, doctorId |-> doctorId, slotTime |-> slotTime,
   source |-> source, priority |-> priority, status |-> STATUS_ALLOCATED]

-----------------------------------------------------------------------------
(* Doctor.slots: a Map, kept as the sequence of its entries in insertion   *)
(* order, each entry [key, slot].                                          *)

\* doctor.slots.get(slotKey): the index of the entry, 0 for undefined
slotIndex(doctor, slotKey) ==
  LET hits == {i \in 1..Len(doctor.slots) : doctor.slots[i].key = slotKey}
  IN IF hits = {} THEN 0 ELSE CHOOSE i \in hits : TRUE

\* initializeDoctorSlots with the end hour included (hour <= endHour)
initializeDoctorSlots_inclusive(doctorId, workingHours) ==
  LET startHour == parseHour(workingHours.start)
      endHour == parseHour(workingHours.end)
      n == IF endHour >= startHour THEN endHour - startHour + 1 ELSE 0
  IN [i \in 1..n |->
        LET hour == startHour + i - 1
            startTime == hourString(hour)
            endTime == hourString(hour + 1)
        IN [key |-> slotKeyOf(doctorId, startTime),
            slot |-> Slot(doctorId, startTime, endTime, MaxCapacity)]]

\* TokenAllocationEngine.initializeDoctorSlots: the entries for
\* hour = startHour .. endHour - 1, ascending
initializeDoctorSlots(doctorId, workingHours) ==
  LET startHour == parseHour(workingHours.start)
      endHour == parseHour(workingHours.end)
      n == IF endHour > startHour THEN endHour - startHour ELSE 0
  IN [i \in 1..n |->
        LET hour == startHour + i - 1
            startTime == hourString(hour)
            endTime == hourString(hour + 1)
        IN [key |-> slotKeyOf(doctorId, startTime),
            slot |-> Slot(doctorId, startTime, endTime, MaxCapacity)]]

-----------------------------------------------------------------------------
(* TokenAllocationEngine.js: the helpers.  An engine record e carries      *)
(* doctors, tokens, waitingQueue and objs, and the history field bumped:   *)
(* the evictions made so far by the running call, oldest first.            *)

NoSlot == ""   \* null / undefined for a slot time
NoToken == 0   \* null / undefined for a token

\* getSourceConfig falling back on the first entry of the table
getSourceConfig_defaultsToFirst(source) ==
  LET hits == {i \in 1..Len(TOKEN_SOURCES) : TOKEN_SOURCES[i].name = source}
  IN IF hits # {}
     THEN TOKEN_SOURCES[CHOOSE i \in hits : \A j \in hits : i <= j]
     ELSE EMERGENCY

\* TokenAllocationEngine.getSourceConfig
getSourceConfig(source) ==
  LET hits == {i \in 1..Len(TOKEN_SOURCES) : TOKEN_SOURCES[i].name = source}
  IN IF hits # {}
     THEN TOKEN_SOURCES[CHOOSE i \in hits : \A j \in hits : i <= j]
     ELSE WALKIN

\* TokenAllocationEngine.canBumpTokenInSlot
canBumpTokenInSlot(e, slot, newPriority) ==
  \E i \in 1..Len(slot.tokens) : e.objs[slot.tokens[i]].priority < newPriority

\* the scan with <= for <: an occupant of equal priority is taken too
RECURSIVE scanLowest_orEqual(_, _, _, _, _)
scanLowest_orEqual(e, tokenSeq, i, lowestPriority, lowestPriorityToken) ==
  IF i > Len(tokenSeq)
  THEN lowestPriorityToken
  ELSE LET existingToken == tokenSeq[i]
       IN IF e.objs[existingToken].priority <= lowestPriority
          THEN scanLowest_orEqual(e, tokenSeq, i + 1,
                                  e.objs[existingToken].priority, existingToken)
          ELSE scanLowest_orEqual(e, tokenSeq, i + 1,
                                  lowestPriority, lowestPriorityToken)

\* the scan stopping at the first occupant of lower priority
RECURSIVE scanLowest_firstLower(_, _, _, _, _)
scanLowest_firstLower(e, tokenSeq, i, lowestPriority, lowestPriorityToken) ==
  IF i > Len(tokenSeq)
  THEN lowestPriorityToken
  ELSE IF e.objs[tokenSeq[i]].priority < lowestPriority
       THEN tokenSeq[i]
       ELSE scanLowest_firstLower(e, tokenSeq, i + 1,
                                  lowestPriority, lowestPriorityToken)

\* the scan of tryBumpLowerPriorityToken (lines 110-118): the token left in
\* lowestPriorityToken after the occupants from position i on are visited
RECURSIVE scanLowest(_, _, _, _, _)
scanLowest(e, tokenSeq, i, lowestPriority, lowestPriorityToken) ==
  IF i > Len(tokenSeq)
  THEN lowestPriorityToken
  ELSE LET existingToken == tokenSeq[i]
       IN IF e.objs[existingToken].priority < lowestPriority
          THEN scanLowest(e, tokenSeq, i + 1,
                          e.objs[existingToken].priority, existingToken)
          ELSE scanLowest(e, tokenSeq, i + 1,
                          lowestPriority, lowestPriorityToken)

\* tryBumpLowerPriorityToken without slot.removeToken: the evicted token is
\* queued but stays in the slot
tryBumpLowerPriorityToken_keepsEvicted(e, doctorId, idx, newToken) ==
  LET slot == e.doctors[doctorId].slots[idx].slot
      lowestPriorityToken ==
        scanLowest(e, slot.tokens, 1, e.objs[newToken].priority, NoToken)
  IN IF lowestPriorityToken # NoToken
     THEN [e |-> [e EXCEPT
                    !.doctors[doctorId].slots[idx].slot = addToken(slot, newToken).slot,
                    !.waitingQueue = Append(@, lowestPriorityToken),
                    !.bumped = Append(@, [by |-> newToken,
                                          evicted |-> lowestPriorityToken,
                                          key |-> e.doctors[doctorId].slots[idx].key])],
           ok |-> TRUE]
     ELSE [e |-> e, ok |-> FALSE]

\* tryBumpLowerPriorityToken putting the evicted token at the head of the queue
tryBumpLowerPriorityToken_queuesInFront(e, doctorId, idx, newToken) ==
  LET slot == e.doctors[doctorId].slots[idx].slot
      lowestPriorityToken ==
        scanLowest(e, slot.tokens, 1, e.objs[newToken].priority, NoToken)
  IN IF lowestPriorityToken # NoToken
     THEN LET removed == removeToken(slot, lowestPriorityToken).slot
              added == addToken(removed, newToken).slot
          IN [e |-> [e EXCEPT
                       !.doctors[doctorId].slots[idx].slot = added,
                       !.waitingQueue = <<lowestPriorityToken>> \o @,
                       !.bumped = Append(@, [by |-> newToken,
                                             evicted |-> lowestPriorityToken,
                                             key |-> e.doctors[doctorId].slots[idx].key])],
              ok |-> TRUE]
     ELSE [e |-> e, ok |-> FALSE]

\* TokenAllocationEngine.tryBumpLowerPriorityToken on the slot at entry idx
\* of doctorId: [e, ok]
tryBumpLowerPriorityToken(e, doctorId, idx, newToken) ==
  LET slot == e.doctors[doctorId].slots[idx].slot
      lowestPriorityToken ==
        scanLowest(e, slot.tokens, 1, e.objs[newToken].priority, NoToken)
  IN IF lowestPriorityToken # NoToken
     THEN LET removed == removeToken(slot, lowestPriorityToken).slot
              added == addToken(removed, newToken).slot
          IN [e |-> [e EXCEPT
                       !.doctors[doctorId].slots[idx].slot = added,
                       !.waitingQueue = Append(@, lowestPriorityToken),
                       !.bumped = Append(@, [by |-> newToken,
                                             evicted |-> lowestPriorityToken,
                                             key |-> e.doctors[doctorId].slots[idx].key])],
              ok |-> TRUE]
     ELSE [e |-> e, ok |-> FALSE]

\* tryAllocateToSlot trying the eviction before the spare capacity
tryAllocateToSlot_bumpsFirst(e, token, slotTime) ==
  LET doctorId == e.objs[token].doctorId
  IN IF doctorId \notin DOMAIN e.doctors
     THEN [e |-> e, ok |-> FALSE, threw |-> TRUE]
     ELSE LET idx == slotIndex(e.doctors[doctorId], slotKeyOf(doctorId, slotTime))
          IN IF idx = 0
             THEN [e |-> e, ok |-> FALSE, threw |-> FALSE]
             ELSE LET slot == e.doctors[doctorId].slots[idx].slot
                      bump == tryBumpLowerPriorityToken(e, doctorId, idx, token)
                  IN IF bump.ok
                     THEN LET freed == bump.e.doctors[doctorId].slots[idx].slot
                              r == addToken(freed, token)
                          IN [e |-> [bump.e EXCEPT
                                       !.doctors[doctorId].slots[idx].slot = r.slot],
                              ok |-> TRUE, threw |-> FALSE]
                     ELSE LET r == addToken(slot, token)
                          IN [e |-> [e EXCEPT !.doctors[doctorId].slots[idx].slot = r.slot],
                              ok |-> r.ok, threw |-> FALSE]

\* tryAllocateToSlot adding the token without looking at the capacity
tryAllocateToSlot_ignoresCapacity(e, token, slotTime) ==
  LET doctorId == e.objs[token].doctorId
  IN IF doctorId \notin DOMAIN e.doctors
     THEN [e |-> e, ok |-> FALSE, threw |-> TRUE]
     ELSE LET idx == slotIndex(e.doctors[doctorId], slotKeyOf(doctorId, slotTime))
          IN IF idx = 0
             THEN [e |-> e, ok |-> FALSE, threw |-> FALSE]
             ELSE [e |-> [e EXCEPT !.doctors[doctorId].slots[idx].slot.tokens =
                                     Append(@, token)],
                   ok |-> TRUE, threw |-> FALSE]

\* TokenAllocationEngine.tryAllocateToSlot: [e, ok, threw].  threw: the
\* token's doctor is not registered, so `doctor.slots` raises a TypeError.
tryAllocateToSlot(e, token, slotTime) ==
  LET doctorId == e.objs[token].doctorId
  IN IF doctorId \notin DOMAIN e.doctors
     THEN [e |-> e, ok |-> FALSE, threw |-> TRUE]
     ELSE LET idx == slotIndex(e.doctors[doctorId], slotKeyOf(doctorId, slotTime))
          IN IF idx = 0
             THEN [e |-> e, ok |-> FALSE, threw |-> FALSE]
             ELSE LET slot == e.doctors[doctorId].slots[idx].slot
                  IN IF slot.availableCapacity > 0
                     THEN LET r == addToken(slot, token)
                          IN [e |-> [e EXCEPT !.doctors[doctorId].slots[idx].slot = r.slot],
                              ok |-> r.ok, threw |-> FALSE]
                     ELSE LET r == tryBumpLowerPriorityToken(e, doctorId, idx, token)
                          IN [e |-> r.e, ok |-> r.ok, threw |-> FALSE]

\* the offsets tried nearest first
timeRange_closestFirst == <<-1, 1, -2, 2>>

timeRange == <<-2, -1, 1, 2>>

\* the loop of findAlternativeSlot over timeRange from position k on
RECURSIVE alternativeFrom(_, _, _, _, _)
alternativeFrom(e, doctorId, preferredHour, priority, k) ==
  IF k > Len(timeRange)
  THEN NoSlot
  ELSE LET alternativeHour == preferredHour + timeRange[k]
           alternativeTime == hourString(alternativeHour)
           idx == slotIndex(e.doctors[doctorId], slotKeyOf(doctorId, alternativeTime))
       IN IF idx # 0 /\
             LET slot == e.doctors[doctorId].slots[idx].slot
             IN slot.availableCapacity > 0 \/ canBumpTokenInSlot(e, slot, priority)
          THEN alternativeTime
          ELSE alternativeFrom(e, doctorId, preferredHour, priority, k + 1)

\* findAlternativeSlot looking at the two earlier hours only
findAlternativeSlot_earlierOnly(e, doctorId, preferredTime, priority) ==
  LET admits(time) ==
        LET idx == slotIndex(e.doctors[doctorId], slotKeyOf(doctorId, time))
        IN idx # 0 /\
           LET slot == e.doctors[doctorId].slots[idx].slot
           IN slot.availableCapacity > 0 \/ canBumpTokenInSlot(e, slot, priority)
      twoEarlier == hourString(parseHour(preferredTime) - 2)
      oneEarlier == hourString(parseHour(preferredTime) - 1)
  IN IF admits(twoEarlier) THEN twoEarlier
     ELSE IF admits(oneEarlier) THEN oneEarlier
     ELSE NoSlot

\* TokenAllocationEngine.findAlternativeSlot
findAlternativeSlot(e, doctorId, preferredTime, priority) ==
  alternativeFrom(e, doctorId, parseHour(preferredTime), priority, 1)

\* findAnyAvailableSlot returning the last slot that qualifies
findAnyAvailableSlot_latest(e, doctorId, priority) ==
  LET doctor == e.doctors[doctorId]
      hits == {i \in 1..Len(doctor.slots) :
                 doctor.slots[i].slot.availableCapacity > 0 \/
                 canBumpTokenInSlot(e, doctor.slots[i].slot, priority)}
  IN IF hits = {}
     THEN NoSlot
     ELSE doctor.slots[CHOOSE i \in hits : \A j \in hits : i >= j].slot.startTime

\* TokenAllocationEngine.findAnyAvailableSlot: the Map is walked in
\* insertion order
findAnyAvailableSlot(e, doctorId, priority) ==
  LET doctor == e.doctors[doctorId]
      hits == {i \in 1..Len(doctor.slots) :
                 doctor.slots[i].slot.availableCapacity > 0 \/
                 canBumpTokenInSlot(e, doctor.slots[i].slot, priority)}
  IN IF hits = {}
     THEN NoSlot
     ELSE doctor.slots[CHOOSE i \in hits : \A j \in hits : i <= j].slot.startTime

\* the loop giving up after its first placement: every later token of the
\* queue is left waiting without an attempt
RECURSIVE replayFrom_stopsAfterPlacement(_, _, _, _, _)
replayFrom_stopsAfterPlacement(e, i, reallocated, stillWaiting, visited) ==
  IF i > Len(e.waitingQueue)
  THEN [e |-> [e EXCEPT !.waitingQueue = stillWaiting],
        reallocated |-> reallocated, visited |-> visited]
  ELSE LET token == e.waitingQueue[i]
           availableSlot == IF reallocated # << >>
                            THEN NoSlot
                            ELSE findAnyAvailableSlot(e, e.objs[token].doctorId,
                                                      e.objs[token].priority)
       IN IF availableSlot # NoSlot
          THEN LET e1 == [e EXCEPT !.objs[token].slotTime = availableSlot]
                   r == tryAllocateToSlot(e1, token, availableSlot)
               IN IF r.ok
                  THEN replayFrom_stopsAfterPlacement(
                         r.e, i + 1, Append(reallocated, token),
                         stillWaiting, Append(visited, token))
                  ELSE replayFrom_stopsAfterPlacement(
                         r.e, i + 1, reallocated,
                         Append(stillWaiting, token), Append(visited, token))
          ELSE replayFrom_stopsAfterPlacement(
                 e, i + 1, reallocated,
                 Append(stillWaiting, token), Append(visited, token))

\* The for...of loop of processWaitingQueue from array position i on.  The
\* array iterated is this.waitingQueue itself, whose length is read again at
\* every step, so tokens pushed by an eviction during the loop are visited too.
RECURSIVE replayFrom(_, _, _, _, _)
replayFrom(e, i, reallocated, stillWaiting, visited) ==
  IF i > Len(e.waitingQueue)
  THEN [e |-> [e EXCEPT !.waitingQueue = stillWaiting],
        reallocated |-> reallocated, visited |-> visited]
  ELSE LET token == e.waitingQueue[i]
           availableSlot == findAnyAvailableSlot(e, e.objs[token].doctorId,
                                                 e.objs[token].priority)
       IN IF availableSlot # NoSlot
          THEN LET e1 == [e EXCEPT !.objs[token].slotTime = availableSlot]
                   r == tryAllocateToSlot(e1, token, availableSlot)
               IN IF r.ok
                  THEN replayFrom(r.e, i + 1, Append(reallocated, token),
                                  stillWaiting, Append(visited, token))
                  ELSE replayFrom(r.e, i + 1, reallocated,
                                  Append(stillWaiting, token), Append(visited, token))
          ELSE replayFrom(e, i + 1, reallocated,
                          Append(stillWaiting, token), Append(visited, token))

\* processWaitingQueue iterating a copy of the queue taken when it is
\* entered: the tokens evicted during the pass are never visited and are
\* lost when the queue is replaced by stillWaiting
processWaitingQueue_dropsEvicted(e) ==
  LET r == replayFrom(e, 1, << >>, << >>, << >>)
      wasWaiting(id) == \E k \in 1..Len(e.waitingQueue) : e.waitingQueue[k] = id
      evicted == {r.e.bumped[k].evicted : k \in 1..Len(r.e.bumped)}
      dropped == {id \in evicted : ~wasWaiting(id)}
      kept(id) == id \notin dropped
      emptied(entry) ==
        [entry EXCEPT !.slot.tokens = SelectSeq(@, kept),
                      !.slot.availableCapacity =
                        entry.slot.maxCapacity
                          - Len(SelectSeq(entry.slot.tokens, kept))]
  IN [r EXCEPT !.e.waitingQueue = SelectSeq(@, kept),
               !.e.doctors = [d \in DOMAIN @ |->
                  [@[d] EXCEPT !.slots = [i \in 1..Len(@) |-> emptied(@[i])]]]]

\* TokenAllocationEngine.processWaitingQueue: [e, reallocated, visited]
processWaitingQueue(e) == replayFrom(e, 1, << >>, << >>, << >>)

-----------------------------------------------------------------------------
(* TokenAllocationEngine.js: the public methods, as operators on an engine *)
(* record.  Each gives the engine after the call and what the call         *)
(* returned; threw marks a call that raised instead of returning.          *)

\* what a call hands back: the returned object's success, token and
\* message / error, and the history of the call
Returned(e, success, token, message, error, threw, reallocated, visited) ==
  [e |-> e, success |-> success, token |-> token, message |-> message,
   error |-> error, threw |-> threw,
   reallocated |-> reallocated, visited |-> visited]

\* TokenAllocationEngine.addDoctor, for a freshly constructed Doctor
addDoctor(e, doctorId, workingHours) ==
  [e EXCEPT !.doctors =
     [d \in DOMAIN e.doctors \cup {doctorId} |->
        IF d = doctorId
        THEN [id |-> doctorId, workingHours |-> workingHours,
              slots |-> initializeDoctorSlots(doctorId, workingHours)]
        ELSE e.doctors[d]]]

\* lines 73-79 of allocateToken
pushToWaitingQueue(e, token) ==
  Returned([e EXCEPT !.waitingQueue = Append(@, token)], FALSE, token,
           "No slots available, added to waiting queue", "", FALSE, << >>, << >>)

\* allocateToken without the alternative-slot search
allocateToken_noAlternative(e, doctorId, preferredTime, source) ==
  IF doctorId \notin DOMAIN e.doctors
  THEN Returned(e, FALSE, NoToken, "", "Doctor not found", FALSE, << >>, << >>)
  ELSE
    LET sourceConfig == getSourceConfig(source)
        token == Len(e.objs) + 1
        e0 == [e EXCEPT !.objs = Append(@, Token(token, doctorId, preferredTime,
                                                  source, sourceConfig.priority))]
        preferred == tryAllocateToSlot(e0, token, preferredTime)
    IN IF preferred.ok
       THEN Returned([preferred.e EXCEPT !.tokens = @ \cup {token}], TRUE, token,
                     "Token allocated successfully", "", FALSE, << >>, << >>)
       ELSE pushToWaitingQueue(preferred.e, token)

\* allocateToken replaying the waiting queue after a placement
allocateToken_thenReplays(e, doctorId, preferredTime, source) ==
  IF doctorId \notin DOMAIN e.doctors
  THEN Returned(e, FALSE, NoToken, "", "Doctor not found", FALSE, << >>, << >>)
  ELSE
    LET sourceConfig == getSourceConfig(source)
        token == Len(e.objs) + 1
        e0 == [e EXCEPT !.objs = Append(@, Token(token, doctorId, preferredTime,
                                                  source, sourceConfig.priority))]
        preferred == tryAllocateToSlot(e0, token, preferredTime)
    IN IF preferred.ok
       THEN LET replay == processWaitingQueue(
                            [preferred.e EXCEPT !.tokens = @ \cup {token}])
            IN Returned(replay.e, TRUE, token, "Token allocated successfully", "",
                        FALSE, << >>, << >>)
       ELSE
         LET alternativeSlot ==
               findAlternativeSlot(preferred.e, doctorId, preferredTime,
                                   sourceConfig.priority)
         IN IF alternativeSlot # NoSlot
            THEN LET e1 == [preferred.e EXCEPT !.objs[token].slotTime = alternativeSlot]
                     alternative == tryAllocateToSlot(e1, token, alternativeSlot)
                     replay == processWaitingQueue(
                                 [alternative.e EXCEPT !.tokens = @ \cup {token}])
                 IN IF alternative.ok
                    THEN Returned(replay.e, TRUE, token,
                                  "Token allocated to alternative slot: " \o alternativeSlot,
                                  "", FALSE, << >>, << >>)
                    ELSE pushToWaitingQueue(alternative.e, token)
            ELSE pushToWaitingQueue(preferred.e, token)

\* TokenAllocationEngine.allocateToken
allocateToken(e, doctorId, preferredTime, source) ==
  IF doctorId \notin DOMAIN e.doctors
  THEN Returned(e, FALSE, NoToken, "", "Doctor not found", FALSE, << >>, << >>)
  ELSE
    LET sourceConfig == getSourceConfig(source)
        token == Len(e.objs) + 1
        e0 == [e EXCEPT !.objs = Append(@, Token(token, doctorId, preferredTime,
                                                  source, sourceConfig.priority))]
        preferred == tryAllocateToSlot(e0, token, preferredTime)
    IN IF preferred.ok
       THEN Returned([preferred.e EXCEPT !.tokens = @ \cup {token}], TRUE, token,
                     "Token allocated successfully", "", FALSE, << >>, << >>)
       ELSE
         LET alternativeSlot ==
               findAlternativeSlot(preferred.e, doctorId, preferredTime,
                                   sourceConfig.priority)
         IN IF alternativeSlot # NoSlot
            THEN LET e1 == [preferred.e EXCEPT !.objs[token].slotTime = alternativeSlot]
                     alternative == tryAllocateToSlot(e1, token, alternativeSlot)
                 IN IF alternative.ok
                    THEN Returned([alternative.e EXCEPT !.tokens = @ \cup {token}],
                                  TRUE, token,
                                  "Token allocated to alternative slot: " \o alternativeSlot,
                                  "", FALSE, << >>, << >>)
                    ELSE pushToWaitingQueue(alternative.e, token)
            ELSE pushToWaitingQueue(preferred.e, token)

\* cancelToken deleting the registry entry of the cancelled token
cancelToken_forgets(e, tokenId) ==
  IF tokenId \notin e.tokens
  THEN Returned(e, FALSE, NoToken, "Token not found", "", FALSE, << >>, << >>)
  ELSE
    LET doctorId == e.objs[tokenId].doctorId
        idx == slotIndex(e.doctors[doctorId],
                         slotKeyOf(doctorId, e.objs[tokenId].slotTime))
        e1 == IF idx # 0
              THEN [e EXCEPT !.doctors[doctorId].slots[idx].slot =
                               removeToken(@, tokenId).slot]
              ELSE e
        e2 == [e1 EXCEPT !.objs[tokenId].status = STATUS_CANCELLED,
                         !.tokens = @ \ {tokenId}]
        replay == processWaitingQueue(e2)
    IN Returned(replay.e, TRUE, NoToken, "Token cancelled successfully", "",
                FALSE, replay.reallocated, replay.visited)

\* cancelToken running the replay before it answers 'Token not found'
cancelToken_replaysWhenRejected(e, tokenId) ==
  IF tokenId \notin e.tokens
  THEN Returned(processWaitingQueue(e).e, FALSE, NoToken, "Token not found", "",
                FALSE, << >>, << >>)
  ELSE
    LET doctorId == e.objs[tokenId].doctorId
        idx == slotIndex(e.doctors[doctorId],
                         slotKeyOf(doctorId, e.objs[tokenId].slotTime))
        e1 == IF idx # 0
              THEN [e EXCEPT !.doctors[doctorId].slots[idx].slot =
                               removeToken(@, tokenId).slot]
              ELSE e
        e2 == [e1 EXCEPT !.objs[tokenId].status = STATUS_CANCELLED]
        replay == processWaitingQueue(e2)
    IN Returned(replay.e, TRUE, NoToken, "Token cancelled successfully", "",
                FALSE, replay.reallocated, replay.visited)

\* cancelToken without the replay of the waiting queue
cancelToken_noReplay(e, tokenId) ==
  IF tokenId \notin e.tokens
  THEN Returned(e, FALSE, NoToken, "Token not found", "", FALSE, << >>, << >>)
  ELSE
    LET doctorId == e.objs[tokenId].doctorId
        idx == slotIndex(e.doctors[doctorId],
                         slotKeyOf(doctorId, e.objs[tokenId].slotTime))
        e1 == IF idx # 0
              THEN [e EXCEPT !.doctors[doctorId].slots[idx].slot =
                               removeToken(@, tokenId).slot]
              ELSE e
        e2 == [e1 EXCEPT !.objs[tokenId].status = STATUS_CANCELLED]
    IN Returned(e2, TRUE, NoToken, "Token cancelled successfully", "",
                FALSE, << >>, << >>)

\* cancelToken replaying the queue only when it took a token out of a slot
cancelToken_replaysWhenFreed(e, tokenId) ==
  IF tokenId \notin e.tokens
  THEN Returned(e, FALSE, NoToken, "Token not found", "", FALSE, << >>, << >>)
  ELSE
    LET doctorId == e.objs[tokenId].doctorId
        idx == slotIndex(e.doctors[doctorId],
                         slotKeyOf(doctorId, e.objs[tokenId].slotTime))
        removed == IF idx # 0
                   THEN removeToken(e.doctors[doctorId].slots[idx].slot, tokenId)
                   ELSE [slot |-> Slot(doctorId, "", "", 0), ok |-> FALSE]
        e1 == IF idx # 0
              THEN [e EXCEPT !.doctors[doctorId].slots[idx].slot = removed.slot]
              ELSE e
        e2 == [e1 EXCEPT !.objs[tokenId].status = STATUS_CANCELLED]
        replay == IF removed.ok
                  THEN processWaitingQueue(e2)
                  ELSE [e |-> e2, reallocated |-> << >>, visited |-> << >>]
    IN Returned(replay.e, TRUE, NoToken, "Token cancelled successfully", "",
                FALSE, replay.reallocated, replay.visited)

\* TokenAllocationEngine.cancelToken
cancelToken(e, tokenId) ==
  IF tokenId \notin e.tokens
  THEN Returned(e, FALSE, NoToken, "Token not found", "", FALSE, << >>, << >>)
  ELSE
    LET doctorId == e.objs[tokenId].doctorId
        idx == slotIndex(e.doctors[doctorId],
                         slotKeyOf(doctorId, e.objs[tokenId].slotTime))
        e1 == IF idx # 0
              THEN [e EXCEPT !.doctors[doctorId].slots[idx].slot =
                               removeToken(@, tokenId).slot]
              ELSE e
        e2 == [e1 EXCEPT !.objs[tokenId].status = STATUS_CANCELLED]
        replay == processWaitingQueue(e2)
    IN Returned(replay.e, TRUE, NoToken, "Token cancelled successfully", "",
                FALSE, replay.reallocated, replay.visited)

\* insertEmergencyToken without the replay of the waiting queue
insertEmergencyToken_noReplay(e, doctorId, urgentTime) ==
  LET emergencyToken == Len(e.objs) + 1
      e0 == [e EXCEPT !.objs = Append(@, Token(emergencyToken, doctorId, urgentTime,
                                                EMERGENCY.name, EMERGENCY.priority))]
      placed == tryAllocateToSlot(e0, emergencyToken, urgentTime)
  IN IF placed.threw
     THEN Returned(e, FALSE, NoToken, "", "TypeError", TRUE, << >>, << >>)
     ELSE IF placed.ok
     THEN Returned([placed.e EXCEPT !.tokens = @ \cup {emergencyToken}], TRUE,
                   emergencyToken, "Emergency token allocated successfully", "",
                   FALSE, << >>, << >>)
     ELSE Returned(e, FALSE, NoToken, "Failed to allocate emergency token", "",
                   FALSE, << >>, << >>)

\* insertEmergencyToken queueing the token it could not place
insertEmergencyToken_queues(e, doctorId, urgentTime) ==
  LET emergencyToken == Len(e.objs) + 1
      e0 == [e EXCEPT !.objs = Append(@, Token(emergencyToken, doctorId, urgentTime,
                                                EMERGENCY.name, EMERGENCY.priority))]
      placed == tryAllocateToSlot(e0, emergencyToken, urgentTime)
  IN IF placed.threw
     THEN Returned(e, FALSE, NoToken, "", "TypeError", TRUE, << >>, << >>)
     ELSE IF placed.ok
     THEN LET replay == processWaitingQueue(
                          [placed.e EXCEPT !.tokens = @ \cup {emergencyToken}])
          IN Returned(replay.e, TRUE, emergencyToken,
                      "Emergency token allocated successfully", "", FALSE,
                      replay.reallocated, replay.visited)
     ELSE Returned([e0 EXCEPT !.waitingQueue = Append(@, emergencyToken)], FALSE,
                   NoToken, "Failed to allocate emergency token", "",
                   FALSE, << >>, << >>)

\* TokenAllocationEngine.insertEmergencyToken
insertEmergencyToken(e, doctorId, urgentTime) ==
  LET emergencyToken == Len(e.objs) + 1
      e0 == [e EXCEPT !.objs = Append(@, Token(emergencyToken, doctorId, urgentTime,
                                                EMERGENCY.name, EMERGENCY.priority))]
      placed == tryAllocateToSlot(e0, emergencyToken, urgentTime)
  IN IF placed.threw
     THEN Returned(e, FALSE, NoToken, "", "TypeError", TRUE, << >>, << >>)
     ELSE IF placed.ok
     THEN LET replay == processWaitingQueue(
                          [placed.e EXCEPT !.tokens = @ \cup {emergencyToken}])
          IN Returned(replay.e, TRUE, emergencyToken,
                      "Emergency token allocated successfully", "", FALSE,
                      replay.reallocated, replay.visited)
     ELSE Returned(e, FALSE, NoToken, "Failed to allocate emergency token", "",
                   FALSE, << >>, << >>)

-----------------------------------------------------------------------------
(* The read views: each returns [e, value], e being the engine after it *)

\* the slots of all doctors, doctor by doctor (lines 310-311)
RECURSIVE slotsOfDoctors(_, _)
slotsOfDoctors(docs, ids) ==
  IF ids = {}
  THEN << >>
  ELSE LET d == CHOOSE x \in ids : TRUE
       IN docs[d].slots \o slotsOfDoctors(docs, ids \ {d})

\* the counting loop of getSystemStats from entry i on
RECURSIVE countSlots(_, _, _)
countSlots(entries, i, acc) ==
  IF i > Len(entries)
  THEN acc
  ELSE LET slot == entries[i].slot
       IN countSlots(entries, i + 1,
            [totalSlots |-> acc.totalSlots + 1,
             occupiedSlots |-> acc.occupiedSlots
                                 + (IF Len(slot.tokens) > 0 THEN 1 ELSE 0),
             totalCapacity |-> acc.totalCapacity + slot.maxCapacity,
             allocatedTokens |-> acc.allocatedTokens + Len(slot.tokens)])

\* ((num / den) * 100).toFixed(2): two decimals, rounded; 0/0 is NaN and
\* n/0 is Infinity, which toFixed prints by name
toFixed2(num, den) ==
  IF den = 0
  THEN IF num = 0 THEN "NaN" ELSE "Infinity"
  ELSE LET hundredths == (20000 * num + den) \div (2 * den)
       IN ToString(hundredths \div 100) \o "." \o
          padStart2(ToString(hundredths % 100))

\* TokenAllocationEngine.getSystemStats
getSystemStats(e) ==
  LET counted == countSlots(slotsOfDoctors(e.doctors, DOMAIN e.doctors), 1,
                            [totalSlots |-> 0, occupiedSlots |-> 0,
                             totalCapacity |-> 0, allocatedTokens |-> 0])
  IN [e |-> e,
      value |-> [totalDoctors |-> Cardinality(DOMAIN e.doctors),
                 totalSlots |-> counted.totalSlots,
                 occupiedSlots |-> counted.occupiedSlots,
                 totalCapacity |-> counted.totalCapacity,
                 allocatedTokens |-> counted.allocatedTokens,
                 waitingQueue |-> Len(e.waitingQueue),
                 utilizationRate |->
                   toFixed2(counted.allocatedTokens, counted.totalCapacity) \o "%"]]

\* the sort with the comparison turned round: lowest priority first
RECURSIVE sortByPriority_ascending(_, _, _)
sortByPriority_ascending(rows, i, sorted) ==
  IF i > Len(rows)
  THEN sorted
  ELSE LET x == rows[i]
           n == Cardinality({k \in 1..Len(sorted) :
                               sorted[k].priority <= x.priority})
       IN sortByPriority_ascending(rows, i + 1,
            SubSeq(sorted, 1, n) \o <<x>> \o SubSeq(sorted, n + 1, Len(sorted)))

\* Array.prototype.sort((a, b) => b.priority - a.priority) on the rows from
\* position i on: a stable sort, row x goes behind the rows it does not
\* precede
RECURSIVE sortByPriority(_, _, _)
sortByPriority(rows, i, sorted) ==
  IF i > Len(rows)
  THEN sorted
  ELSE LET x == rows[i]
           n == Cardinality({k \in 1..Len(sorted) :
                               sorted[k].priority >= x.priority})
       IN sortByPriority(rows, i + 1,
            SubSeq(sorted, 1, n) \o <<x>> \o SubSeq(sorted, n + 1, Len(sorted)))

\* slot.tokens.map(t => ({id, source, priority, status}))
tokenRows(e, tokenSeq) ==
  [k \in 1..Len(tokenSeq) |->
     [id |-> tokenSeq[k],
      source |-> e.objs[tokenSeq[k]].source,
      priority |-> e.objs[tokenSeq[k]].priority,
      status |-> e.objs[tokenSeq[k]].status]]

\* one row of the schedule (lines 286-292)
scheduleRow(e, slot) ==
  [time |-> slot.startTime \o "-" \o slot.endTime,
   capacity |-> slot.maxCapacity,
   allocated |-> Len(slot.tokens),
   available |-> slot.availableCapacity,
   tokens |-> sortByPriority(tokenRows(e, slot.tokens), 1, << >>)]

\* schedule.sort((a, b) => a.time.localeCompare(b.time)) from position i
\* on: the times are zero-padded "HH:00-HH:00" texts, ordered as their hours
RECURSIVE sortByTime(_, _, _)
sortByTime(rows, i, sorted) ==
  IF i > Len(rows)
  THEN sorted
  ELSE LET x == rows[i]
           n == Cardinality({k \in 1..Len(sorted) :
                               sorted[k].time = x.time \/
                               parseHour(SubSeq(sorted[k].time, 1, 5))
                                 < parseHour(SubSeq(x.time, 1, 5))})
       IN sortByTime(rows, i + 1,
            SubSeq(sorted, 1, n) \o <<x>> \o SubSeq(sorted, n + 1, Len(sorted)))


\* the value returned for a doctor that is not registered
NullSchedule == [isNull |-> TRUE, doctor |-> [id |-> ""], schedule |-> << >>]

\* the ids of a slot's tokens, highest priority first
idsByPriority(e, tokenSeq) ==
  LET rows == sortByPriority(tokenRows(e, tokenSeq), 1, << >>)
  IN [k \in 1..Len(rows) |-> rows[k].id]

\* getDoctorSchedule sorting slot.tokens itself instead of a mapped copy
getDoctorSchedule_sortsInPlace(e, doctorId) ==
  IF doctorId \notin DOMAIN e.doctors
  THEN [e |-> e, value |-> NullSchedule]
  ELSE LET doctor == e.doctors[doctorId]
           schedule == [i \in 1..Len(doctor.slots) |->
                          scheduleRow(e, doctor.slots[i].slot)]
       IN [e |-> [e EXCEPT !.doctors[doctorId].slots =
                    [i \in 1..Len(doctor.slots) |->
                       [doctor.slots[i] EXCEPT
                          !.slot.tokens = idsByPriority(e, @)]]],
           value |-> [isNull |-> FALSE, doctor |-> [id |-> doctor.id],
                      schedule |-> sortByTime(schedule, 1, << >>)]]

\* TokenAllocationEngine.getDoctorSchedule
getDoctorSchedule(e, doctorId) ==
  IF doctorId \notin DOMAIN e.doctors
  THEN [e |-> e, value |-> NullSchedule]
  ELSE LET doctor == e.doctors[doctorId]
           schedule == [i \in 1..Len(doctor.slots) |->
                          scheduleRow(e, doctor.slots[i].slot)]
       IN [e |-> e,
           value |-> [isNull |-> FALSE, doctor |-> [id |-> doctor.id],
                      schedule |-> sortByTime(schedule, 1, << >>)]]

-----------------------------------------------------------------------------
(* The state machine *)

\* the engine as the next call finds it
Engine ==
  [doctors |-> doctors, tokens |-> tokens, waitingQueue |-> waitingQueue,
   objs |-> objs, bumped |-> << >>]

Commit(e) ==
  /\ doctors' = e.doctors
  /\ tokens' = e.tokens
  /\ waitingQueue' = e.waitingQueue
  /\ objs' = e.objs
  /\ http' = http
  /\ pass' = pass

\* the call just made and its outcome
Call(op, r) ==
  [op |-> op, success |-> r.success, token |-> r.token,
   message |-> r.message, error |-> r.error, threw |-> r.threw,
   reallocated |-> r.reallocated, visited |-> r.visited,
   bumped |-> r.e.bumped]

NoCall ==
  [op |-> "constructor", success |-> TRUE, token |-> NoToken, message |-> "",
   error |-> "", threw |-> FALSE, reallocated |-> << >>, visited |-> << >>,
   bumped |-> << >>]

\* no call of processWaitingQueue is being followed
NoPass == [i |-> 0]

\* TokenAllocationEngine.constructor
Init ==
  /\ doctors = << >>
  /\ tokens = {}
  /\ waitingQueue = << >>
  /\ objs = << >>
  /\ result = NoCall
  /\ http = << >>
  /\ pass = NoPass

AddDoctor(doctorId, workingHours) ==
  LET e == addDoctor(Engine, doctorId, workingHours)
  IN /\ Commit(e)
     /\ result' = Call("addDoctor",
                       Returned(e, TRUE, NoToken, "", "", FALSE, << >>, << >>))

AllocateToken(doctorId, preferredTime, source) ==
  LET r == allocateToken(Engine, doctorId, preferredTime, source)
  IN /\ Commit(r.e)
     /\ result' = Call("allocateToken", r)

CancelToken(tokenId) ==
  LET r == cancelToken(Engine, tokenId)
  IN /\ Commit(r.e)
     /\ result' = Call("cancelToken", r)

InsertEmergencyToken(doctorId, urgentTime) ==
  LET r == insertEmergencyToken(Engine, doctorId, urgentTime)
  IN /\ Commit(r.e)
     /\ result' = Call("insertEmergencyToken", r)

ProcessWaitingQueue ==
  LET r == processWaitingQueue(Engine)
  IN /\ Commit(r.e)
     /\ result' = Call("processWaitingQueue",
                       Returned(r.e, TRUE, NoToken, "", "", FALSE,
                                r.reallocated, r.visited))

\* processWaitingQueue followed iteration by iteration.  pass holds the
\* locals of the call: i, the position of the for...of iterator in
\* this.waitingQueue; reallocated and stillWaiting, the two arrays of the
\* call; visited and bumped, the history of the call; start, the engine the
\* call found.

\* the longest loop that is followed
PassMaxVisits == 12

\* processWaitingQueue is entered: lines 222-223
BeginPass ==
  /\ pass = NoPass
  /\ pass' = [i |-> 1, reallocated |-> << >>, stillWaiting |-> << >>,
              visited |-> << >>, bumped |-> << >>, start |-> Engine]
  /\ UNCHANGED <<doctors, tokens, waitingQueue, objs, result, http>>

\* an iteration that pushes the token it could not place to
\* this.waitingQueue, the array being iterated, as well
StepPass_requeues ==
  /\ pass # NoPass
  /\ pass.i <= Len(waitingQueue)
  /\ pass.i <= PassMaxVisits
  /\ \E token \in {waitingQueue[pass.i]} :
     \E e \in {[Engine EXCEPT !.bumped = pass.bumped]} :
     \E availableSlot \in {findAnyAvailableSlot(e, objs[token].doctorId,
                                                objs[token].priority)} :
     \E r \in {IF availableSlot # NoSlot
               THEN tryAllocateToSlot(
                      [e EXCEPT !.objs[token].slotTime = availableSlot],
                      token, availableSlot)
               ELSE [e |-> e, ok |-> FALSE, threw |-> FALSE]} :
        /\ doctors' = r.e.doctors
        /\ tokens' = r.e.tokens
        /\ waitingQueue' = IF r.ok THEN r.e.waitingQueue
                           ELSE Append(r.e.waitingQueue, token)
        /\ objs' = r.e.objs
        /\ pass' = [pass EXCEPT
                      !.i = @ + 1,
                      !.reallocated = IF r.ok THEN Append(@, token) ELSE @,
                      !.stillWaiting = IF r.ok THEN @ ELSE Append(@, token),
                      !.visited = Append(@, token),
                      !.bumped = r.e.bumped]
  /\ UNCHANGED <<result, http>>

\* one iteration of the for...of loop, lines 225-238: the iterator reads
\* the length of this.waitingQueue anew, so it goes on to the tokens that
\* evictions pushed during the call
StepPass ==
  /\ pass # NoPass
  /\ pass.i <= Len(waitingQueue)
  /\ pass.i <= PassMaxVisits
  /\ \E token \in {waitingQueue[pass.i]} :
     \E e \in {[Engine EXCEPT !.bumped = pass.bumped]} :
     \E availableSlot \in {findAnyAvailableSlot(e, objs[token].doctorId,
                                                objs[token].priority)} :
     \E r \in {IF availableSlot # NoSlot
               THEN tryAllocateToSlot(
                      [e EXCEPT !.objs[token].slotTime = availableSlot],
                      token, availableSlot)
               ELSE [e |-> e, ok |-> FALSE, threw |-> FALSE]} :
        /\ doctors' = r.e.doctors
        /\ tokens' = r.e.tokens
        /\ waitingQueue' = r.e.waitingQueue
        /\ objs' = r.e.objs
        /\ pass' = [pass EXCEPT
                      !.i = @ + 1,
                      !.reallocated = IF r.ok THEN Append(@, token) ELSE @,
                      !.stillWaiting = IF r.ok THEN @ ELSE Append(@, token),
                      !.visited = Append(@, token),
                      !.bumped = r.e.bumped]
  /\ UNCHANGED <<result, http>>

\* the iterator is past the end of this.waitingQueue: lines 240-241
EndPass ==
  /\ pass # NoPass
  /\ pass.i > Len(waitingQueue)
  /\ waitingQueue' = pass.stillWaiting
  /\ result' = Call("processWaitingQueue",
                    Returned([Engine EXCEPT !.bumped = pass.bumped], TRUE,
                             NoToken, "", "", FALSE, pass.reallocated,
                             pass.visited))
  /\ pass' = NoPass
  /\ UNCHANGED <<doctors, tokens, objs, http>>

\* A call that would keep one more Token object than the bound allows is
\* left out; a call that keeps none (a rejected one) is always possible.
\* a view just called and the value it returned
View(op, doctorId, value) == [op |-> op, doctorId |-> doctorId, value |-> value]

GetSystemStats ==
  LET r == getSystemStats(Engine)
  IN /\ Commit(r.e)
     /\ result' = View("getSystemStats", "", r.value)

GetDoctorSchedule(doctorId) ==
  LET r == getDoctorSchedule(Engine, doctorId)
  IN /\ Commit(r.e)
     /\ result' = View("getDoctorSchedule", doctorId, r.value)

\* routes/api.js.  Every handler is a synchronous function: it reads the
\* request, makes one engine call and writes the response with no await,
\* callback or timer in between, so the event loop runs it to completion
\* before it starts the handler of another request.  Each handler is an
\* operator [e, status, r]: the engine after it, the HTTP status and the
\* value returned by the engine.

validSources == {TOKEN_SOURCES[i].name : i \in 1..Len(TOKEN_SOURCES)}

\* router.post('/tokens/allocate')
postTokensAllocate(e, body) ==
  IF body.source \notin validSources
  THEN [e |-> e, status |-> 400,
        r |-> Returned(e, FALSE, NoToken, "Invalid source", "", FALSE, << >>, << >>)]
  ELSE LET r == allocateToken(e, body.doctorId, body.time, body.source)
       IN [e |-> r.e,
           status |-> IF r.threw THEN 500 ELSE IF r.success THEN 201 ELSE 200,
           r |-> r]

\* router.post('/tokens/emergency')
postTokensEmergency(e, body) ==
  LET r == insertEmergencyToken(e, body.doctorId, body.time)
  IN [e |-> r.e,
      status |-> IF r.threw THEN 500 ELSE IF r.success THEN 201 ELSE 400,
      r |-> r]

\* router.delete('/tokens/:tokenId')
deleteTokensTokenId(e, params) ==
  LET r == cancelToken(e, params.tokenId)
  IN [e |-> r.e,
      status |-> IF r.threw THEN 500 ELSE IF r.success THEN 200 ELSE 404,
      r |-> r]

\* the handler the router picks for the request
handlerOf(e, req) ==
  CASE req.kind = "allocate" -> postTokensAllocate(e, req)
    [] req.kind = "emergency" -> postTokensEmergency(e, req)
    [] OTHER -> deleteTokensTokenId(e, req)

\* the requests that wait for their handler
PendingRequests == {i \in 1..Len(http) : http[i].state = "pending"}

\* a request as it arrives; overlapped are the requests waiting at that time
Request(kind, doctorId, time, source, tokenId) ==
  [kind |-> kind, doctorId |-> doctorId, time |-> time, source |-> source,
   tokenId |-> tokenId, state |-> "pending", overlapped |-> PendingRequests,
   status |-> 0, success |-> FALSE, token |-> NoToken]

\* a client's request reaches the server
Receive(req) ==
  /\ http' = Append(http, req)
  /\ UNCHANGED <<doctors, tokens, waitingQueue, objs, result, pass>>

\* the event loop runs the handler of a waiting request, whichever, from
\* its first line to its response
Handle(i) ==
  /\ http[i].state = "pending"
  /\ \E h \in {handlerOf(Engine, http[i])} :
        /\ doctors' = h.e.doctors
        /\ tokens' = h.e.tokens
        /\ waitingQueue' = h.e.waitingQueue
        /\ objs' = h.e.objs
        /\ result' = Call(http[i].kind, h.r)
        /\ http' = [http EXCEPT ![i].state = "done",
                                ![i].status = h.status,
                                ![i].success = h.r.success,
                                ![i].token = h.r.token]
        /\ pass' = pass

WithinTokens(maxTokens) == Len(objs') <= maxTokens

\* Every provider is registered at most once.
Next ==
  \/ \E d \in DoctorIds \ DOMAIN doctors, wh \in WorkingHours : AddDoctor(d, wh)
  \/ \E d \in DoctorIds \cup {UnknownDoctorId}, t \in Times, s \in Sources :
       AllocateToken(d, t, s) /\ WithinTokens(MaxTokens)
  \/ \E id \in (1..Len(objs)) \cup UnknownTokenIds : CancelToken(id)
  \/ \E d \in DoctorIds \cup {UnknownDoctorId}, t \in Times :
       InsertEmergencyToken(d, t) /\ WithinTokens(MaxTokens)
  \/ ProcessWaitingQueue

Spec == Init /\ [][Next]_vars

\* Replay on its own: one provider with a single slot, allocations and
\* direct calls of processWaitingQueue.
ReplayMaxTokens == 4
ReplayWorkingHours == {[start |-> "09:00", end |-> "10:00"]}

NextReplay ==
  \/ \E d \in DoctorIds \ DOMAIN doctors, wh \in ReplayWorkingHours :
       AddDoctor(d, wh)
  \/ \E d \in DoctorIds, t \in Times, s \in Sources :
       AllocateToken(d, t, s) /\ WithinTokens(ReplayMaxTokens)
  \/ ProcessWaitingQueue

SpecReplay == Init /\ [][NextReplay]_vars

\* Allocation on its own: one provider with the slots 09:00, 10:00 and 11:00
\* and preferred times on, before, after and between the slot starts.
AltMaxTokens == 5
AltWorkingHours == {[start |-> "09:00", end |-> "12:00"]}
AltTimes == {"10:00", "12:00", "08:00", "07:00", "10:30"}

NextAlt ==
  \/ \E d \in DoctorIds \ DOMAIN doctors, wh \in AltWorkingHours :
       AddDoctor(d, wh)
  \/ \E d \in DoctorIds, t \in AltTimes, s \in Sources :
       AllocateToken(d, t, s) /\ WithinTokens(AltMaxTokens)

SpecAlt == Init /\ [][NextAlt]_vars

\* Requests for 09:00 only, from a provider working 09:00 to 11:00: one more
\* request than fills the 09:00 slot, and one after it.
ScenarioWorkingHours == {[start |-> "09:00", end |-> "11:00"]}
ScenarioTimes == {"09:00"}
ScenarioSources == {"walkin", "online", "priority", "emergency"}

NextScenario ==
  \/ \E d \in DoctorIds \ DOMAIN doctors, wh \in ScenarioWorkingHours :
       AddDoctor(d, wh)
  \/ \E d \in DoctorIds, t \in ScenarioTimes, s \in ScenarioSources :
       AllocateToken(d, t, s) /\ WithinTokens(MaxCapacity + 2)

SpecScenario == Init /\ [][NextScenario]_vars

\* Cancellation with a waiting queue: one provider with the single slot
\* 09:00, requests that fill it and requests that wait.
CancelMaxTokens == 4

NextCancel ==
  \/ \E d \in DoctorIds \ DOMAIN doctors, wh \in ReplayWorkingHours :
       AddDoctor(d, wh)
  \/ \E d \in DoctorIds, t \in Times, s \in Sources :
       AllocateToken(d, t, s) /\ WithinTokens(CancelMaxTokens)
  \/ \E id \in (1..Len(objs)) \cup UnknownTokenIds : CancelToken(id)

SpecCancel == Init /\ [][NextCancel]_vars

\* The read views between allocations, for a provider with two slots or with
\* working hours that yield no slot.
ViewMaxTokens == 3
ViewWorkingHours == {[start |-> "09:00", end |-> "11:00"],
                     [start |-> "10:00", end |-> "10:00"]}

NextViews ==
  \/ \E d \in DoctorIds \ DOMAIN doctors, wh \in ViewWorkingHours :
       AddDoctor(d, wh)
  \/ \E d \in DoctorIds, t \in Times, s \in Sources :
       AllocateToken(d, t, s) /\ WithinTokens(ViewMaxTokens)
  \/ GetSystemStats
  \/ \E d \in DoctorIds \cup {UnknownDoctorId} : GetDoctorSchedule(d)

SpecViews == Init /\ [][NextViews]_vars

\* Cancellations and emergencies with a waiting queue: one provider with the
\* single slot 09:00.
NextSettle ==
  \/ \E d \in DoctorIds \ DOMAIN doctors, wh \in ReplayWorkingHours :
       AddDoctor(d, wh)
  \/ \E d \in DoctorIds, t \in Times, s \in Sources :
       AllocateToken(d, t, s) /\ WithinTokens(CancelMaxTokens)
  \/ \E id \in (1..Len(objs)) \cup UnknownTokenIds : CancelToken(id)
  \/ \E d \in DoctorIds, t \in Times :
       InsertEmergencyToken(d, t) /\ WithinTokens(CancelMaxTokens)

SpecSettle == Init /\ [][NextSettle]_vars

\* Every source of the table and one that is not in it, for a provider with
\* the single slot 09:00, with evictions, cancellations and replays.
SourcesMaxTokens == 3
AllSources == {"emergency", "priority", "followup", "online", "walkin", "referral"}

NextSources ==
  \/ \E d \in DoctorIds \ DOMAIN doctors, wh \in ReplayWorkingHours :
       AddDoctor(d, wh)
  \/ \E d \in DoctorIds, t \in ScenarioTimes, s \in AllSources :
       AllocateToken(d, t, s) /\ WithinTokens(SourcesMaxTokens)
  \/ \E id \in 1..Len(objs) : CancelToken(id)
  \/ \E d \in DoctorIds, t \in ScenarioTimes :
       InsertEmergencyToken(d, t) /\ WithinTokens(SourcesMaxTokens)
  \/ ProcessWaitingQueue

SpecSources == Init /\ [][NextSources]_vars

\* Placements on their own: three sources and emergencies for a provider
\* with the single slot 09:00, requests for 09:00 and for 13:00.
PreemptMaxTokens == 4
PreemptSources == {"walkin", "online", "priority"}

NextPreempt ==
  \/ \E d \in DoctorIds \ DOMAIN doctors, wh \in ReplayWorkingHours :
       AddDoctor(d, wh)
  \/ \E d \in DoctorIds, t \in Times, s \in PreemptSources :
       AllocateToken(d, t, s) /\ WithinTokens(PreemptMaxTokens)
  \/ \E d \in DoctorIds, t \in Times :
       InsertEmergencyToken(d, t) /\ WithinTokens(PreemptMaxTokens)

SpecPreempt == Init /\ [][NextPreempt]_vars

\* Registration: two providers, working hours that yield two slots, one
\* slot or none, given with and without minutes, and registration under an
\* id that is already taken.
DoctorsMaxTokens == 2
ProviderIds == {"D1", "D2"}
AnyWorkingHours == {[start |-> "09:00", end |-> "11:00"],
                    [start |-> "9:30",  end |-> "10:30"],
                    [start |-> "10:00", end |-> "10:00"],
                    [start |-> "11:00", end |-> "09:00"]}

NextDoctors ==
  \/ \E d \in ProviderIds, wh \in AnyWorkingHours : AddDoctor(d, wh)
  \/ \E d \in ProviderIds, t \in Times :
       AllocateToken(d, t, WALKIN.name) /\ WithinTokens(DoctorsMaxTokens)
  \/ \E id \in 1..Len(objs) : CancelToken(id)

SpecDoctors == Init /\ [][NextDoctors]_vars

\* Clients of the HTTP API: requests for the single slot 09:00 of one
\* provider arrive while others wait, and are handled in any order.
HttpMaxRequests == 3

NextHttp ==
  \/ \E d \in DoctorIds \ DOMAIN doctors, wh \in ReplayWorkingHours :
       AddDoctor(d, wh)
  \/ /\ Len(http) < HttpMaxRequests
     /\ \/ \E d \in DoctorIds, t \in ScenarioTimes, s \in Sources :
             Receive(Request("allocate", d, t, s, NoToken))
        \/ \E d \in DoctorIds, t \in ScenarioTimes :
             Receive(Request("emergency", d, t, EMERGENCY.name, NoToken))
        \/ \E id \in 1..Len(objs) :
             Receive(Request("cancel", "", "", "", id))
  \/ \E i \in 1..Len(http) : Handle(i)

SpecHttp == Init /\ [][NextHttp]_vars

\* processWaitingQueue iteration by iteration: one provider with the slots
\* 09:00 and 10:00; walkin and online requests for 09:00, priority
\* requests for 13:00 (which has no slot within two hours, so that the
\* token waits whatever the slots hold).  No other call runs while the
\* loop does; the loop goes on as long as it can.
PassMaxTokens == 5
PassRequests ==
  {[time |-> "09:00", source |-> "walkin"], [time |-> "09:00", source |-> "online"],
   [time |-> "13:00", source |-> "priority"]}

NextPass ==
  \/ /\ pass = NoPass
     /\ \E d \in DoctorIds \ DOMAIN doctors, wh \in WorkingHours : AddDoctor(d, wh)
  \/ /\ pass = NoPass
     /\ \E d \in DoctorIds, q \in PassRequests :
          AllocateToken(d, q.time, q.source) /\ WithinTokens(PassMaxTokens)
  \/ BeginPass
  \/ StepPass
  \/ EndPass

SpecPass == Init /\ [][NextPass]_vars /\ WF_vars(StepPass \/ EndPass)

-----------------------------------------------------------------------------
(* Vocabulary of the properties *)

\* the slots of the engine, as <<doctorId, entry index>>
SlotRefs ==
  UNION {{<<d, i>> : i \in 1..Len(doctors[d].slots)} : d \in DOMAIN doctors}

SlotAt(ref) == doctors[ref[1]].slots[ref[2]].slot

IsFull(slot) == Len(slot.tokens) = slot.maxCapacity

\* the places that hold token id: <<slot, position>> and queue positions
SlotPlacesOf(id) ==
  UNION {{<<ref, k>> : k \in {j \in 1..Len(SlotAt(ref).tokens) :
                                 SlotAt(ref).tokens[j] = id}} : ref \in SlotRefs}

QueuePlacesOf(id) == {k \in 1..Len(waitingQueue) : waitingQueue[k] = id}

InSomeSlot(id) == SlotPlacesOf(id) # {}
InQueue(id) == QueuePlacesOf(id) # {}

\* the engine part of the state is untouched by the step
EngineUnchanged == UNCHANGED <<doctors, tokens, waitingQueue, objs>>

-----------------------------------------------------------------------------
(* C1 *)

\* C1: in every reachable state every slot holds at most maxCapacity tokens
\* and its stored availableCapacity is maxCapacity minus the number of tokens
\* it holds.
C1_CapacityInvariant ==
  \A ref \in SlotRefs :
    /\ Len(SlotAt(ref).tokens) <= SlotAt(ref).maxCapacity
    /\ SlotAt(ref).availableCapacity =
         SlotAt(ref).maxCapacity - Len(SlotAt(ref).tokens)

\* a full slot after a call that evicted an occupant
C1_Witness ==
  /\ result.bumped # << >>
  /\ \E ref \in SlotRefs : IsFull(SlotAt(ref))

-----------------------------------------------------------------------------
(* C2 *)

\* C2: with each provider registered once, every token is in at most one
\* place: one position of one slot, or one position of the waiting queue.
C2_AtMostOnePlace ==
  \A id \in 1..Len(objs) :
    Cardinality(SlotPlacesOf(id)) + Cardinality(QueuePlacesOf(id)) <= 1

\* a token that was evicted to the queue and placed again by the same call,
\* while another token waits
C2_Witness ==
  /\ \E k \in 1..Len(result.bumped) :
       \E j \in 1..Len(result.reallocated) :
         result.reallocated[j] = result.bumped[k].evicted
  /\ \E id \in 1..Len(objs) : InSomeSlot(id)

-----------------------------------------------------------------------------
(* C3 *)

Priorities == {TOKEN_SOURCES[i].priority : i \in 1..Len(TOKEN_SOURCES)}

\* the engine with one more Token object of the given priority for doctor d
WithIncoming(d, time, priority) ==
  [Engine EXCEPT !.objs = Append(@, Token(Len(objs) + 1, d, time, "", priority))]

\* C3: every eviction made by the last call was made by a token of strictly
\* greater priority than the evicted one; and placing a token on a full slot
\* whose occupants all have priority >= the token's returns false, evicts
\* nobody and leaves the slots and the queue as they were.
C3_PreemptionMonotone ==
  /\ \A k \in 1..Len(result.bumped) :
       objs[result.bumped[k].by].priority > objs[result.bumped[k].evicted].priority
  /\ \A ref \in SlotRefs, p \in Priorities :
       (/\ IsFull(SlotAt(ref))
        /\ \A k \in 1..Len(SlotAt(ref).tokens) :
             objs[SlotAt(ref).tokens[k]].priority >= p)
       => LET e0 == WithIncoming(ref[1], SlotAt(ref).startTime, p)
              r == tryAllocateToSlot(e0, Len(objs) + 1, SlotAt(ref).startTime)
          IN /\ ~r.ok
             /\ r.e.doctors = doctors
             /\ r.e.waitingQueue = waitingQueue
             /\ r.e.bumped = << >>

\* an eviction has just happened and left a full slot whose occupants all
\* have at least priority 8
C3_Witness ==
  /\ result.bumped # << >>
  /\ \E ref \in SlotRefs :
       /\ IsFull(SlotAt(ref))
       /\ \A k \in 1..Len(SlotAt(ref).tokens) :
            objs[SlotAt(ref).tokens[k]].priority >= 8

-----------------------------------------------------------------------------
(* C4 *)

\* the tokens evicted by a call, in the order of their eviction
EvictedBy(call) == [k \in 1..Len(call.bumped) |-> call.bumped[k].evicted]

\* C4: a call of processWaitingQueue visits exactly the tokens that were in
\* the queue when the call began, and every token evicted during the pass is
\* still waiting in the queue when the call returns.
C4_SinglePassOverSnapshot ==
  [][ProcessWaitingQueue =>
       /\ result'.visited = waitingQueue
       /\ \A k \in 1..Len(result'.bumped) :
            \E j \in 1..Len(waitingQueue') :
              waitingQueue'[j] = result'.bumped[k].evicted]_vars

-----------------------------------------------------------------------------
(* C5 *)

PositionIn(queue, id) == CHOOSE k \in 1..Len(queue) : queue[k] = id
IsIn(queue, id) == \E k \in 1..Len(queue) : queue[k] = id

\* C5: two tokens that are in the waiting queue before a processWaitingQueue
\* pass and still in it afterwards are in the same relative order before and
\* after.
C5_QueueOrderPreserved ==
  [][ProcessWaitingQueue =>
       \A a, b \in 1..Len(objs) :
         (/\ IsIn(waitingQueue, a) /\ IsIn(waitingQueue, b)
          /\ IsIn(waitingQueue', a) /\ IsIn(waitingQueue', b)
          /\ PositionIn(waitingQueue, a) < PositionIn(waitingQueue, b))
         => PositionIn(waitingQueue', a) < PositionIn(waitingQueue', b)]_vars

-----------------------------------------------------------------------------
(* C6 *)

\* C6: a cancelled token occupies no slot and is not in the waiting queue.
C6_CancelledOnlyInRegistry ==
  \A id \in 1..Len(objs) :
    objs[id].status = STATUS_CANCELLED => ~InSomeSlot(id) /\ ~InQueue(id)

-----------------------------------------------------------------------------
(* C7 *)

\* C7: a successful cancelToken(id) leaves id in the registry with status
\* cancelled, and no later step removes a registry entry or changes a
\* cancelled status.
C7_CancelledStays ==
  [][/\ \A id \in 1..Len(objs) :
          (CancelToken(id) /\ result'.success)
          => id \in tokens' /\ objs'[id].status = STATUS_CANCELLED
     /\ \A id \in tokens :
          /\ id \in tokens'
          /\ objs[id].status = STATUS_CANCELLED
             => objs'[id].status = STATUS_CANCELLED]_vars

\* a cancelled token is still registered after a later call of another
\* method that placed or visited tokens
C7_Witness ==
  /\ \E id \in tokens : objs[id].status = STATUS_CANCELLED
  /\ result.op \in {"allocateToken", "insertEmergencyToken"}
  /\ result.success

-----------------------------------------------------------------------------
(* C8 *)

\* some queued token would be placed by a replay
ReplayWouldPlace ==
  \E k \in 1..Len(waitingQueue) :
    findAnyAvailableSlot(Engine, objs[waitingQueue[k]].doctorId,
                         objs[waitingQueue[k]].priority) # NoSlot

\* C8: allocateToken for an unregistered provider and cancelToken for an id
\* that is not in the registry return a failure and leave slots, registry,
\* queue and token objects as they were; no token is created, no replay runs.
C8_RejectedCallsChangeNothing ==
  [][/\ \A d \in DoctorIds \cup {UnknownDoctorId}, t \in Times, s \in Sources :
          (d \notin DOMAIN doctors /\ AllocateToken(d, t, s))
          => /\ ~result'.success
             /\ result'.error = "Doctor not found"
             /\ result'.token = NoToken
             /\ EngineUnchanged
     /\ \A id \in (1..Len(objs)) \cup UnknownTokenIds :
          (id \notin tokens /\ CancelToken(id))
          => /\ ~result'.success
             /\ result'.message = "Token not found"
             /\ result'.visited = << >>
             /\ EngineUnchanged]_vars

\* a cancelToken was rejected while a queued token could have been placed
C8_Witness ==
  /\ result.op = "cancelToken"
  /\ ~result.success
  /\ ReplayWouldPlace

-----------------------------------------------------------------------------
(* C9 *)

\* C9: insertEmergencyToken for an unregistered provider returns a failure
\* outcome, raises nothing, and leaves the engine unchanged.
C9_EmergencyUnknownProviderReturns ==
  [][\A d \in DoctorIds \cup {UnknownDoctorId}, t \in Times :
       (d \notin DOMAIN doctors /\ InsertEmergencyToken(d, t))
       => /\ ~result'.threw
          /\ ~result'.success
          /\ EngineUnchanged]_vars

-----------------------------------------------------------------------------
(* C10 *)

\* the slot of registered provider d at time is missing, or full with only
\* priority-10 occupants
EmergencyHasNoRoom(d, time) ==
  LET idx == slotIndex(doctors[d], slotKeyOf(d, time))
  IN \/ idx = 0
     \/ /\ IsFull(SlotAt(<<d, idx>>))
        /\ \A k \in 1..Len(SlotAt(<<d, idx>>).tokens) :
             objs[SlotAt(<<d, idx>>).tokens[k]].priority = EMERGENCY.priority

-----------------------------------------------------------------------------
(* Vocabulary of the allocation properties *)

\* the entries of provider d (in the Map docs) whose slot starts at hour h
EntriesOfHour(docs, d, h) ==
  {i \in 1..Len(docs[d].slots) : hourOfText[docs[d].slots[i].slot.startTime] = h}

\* token id occupies the slot of provider d at hour h
OccupiesHour(docs, d, h, id) ==
  \E i \in EntriesOfHour(docs, d, h) :
    \E k \in 1..Len(docs[d].slots[i].slot.tokens) :
      docs[d].slots[i].slot.tokens[k] = id

\* slot has spare capacity or an occupant of priority strictly below p
Admits(slot, p) ==
  \/ Len(slot.tokens) < slot.maxCapacity
  \/ \E k \in 1..Len(slot.tokens) : objs[slot.tokens[k]].priority < p

\* the slot of provider d at hour h exists and admits priority p
EligibleHour(d, h, p) ==
  \E i \in EntriesOfHour(doctors, d, h) : Admits(doctors[d].slots[i].slot, p)

\* the slot keyed by the text time is missing or does not admit priority p
PreferredFails(d, time, p) ==
  \A i \in 1..Len(doctors[d].slots) :
    doctors[d].slots[i].key = slotKeyOf(d, time)
    => ~Admits(doctors[d].slots[i].slot, p)

PriorityOf(source) ==
  CASE source = "emergency" -> 10
    [] source = "priority" -> 8
    [] source = "followup" -> 6
    [] source = "online" -> 4
    [] OTHER -> 2

OffsetOrder == <<-2, -1, 1, 2>>

\* the id of the Token object a step creates
NewToken == Len(objs) + 1

-----------------------------------------------------------------------------
(* C11 *)

\* C11: when placement at the preferred slot fails, the token goes to the
\* slot of the first offset in the order -2, -1, +1, +2 whose slot exists and
\* admits it; with -2 and -1 both eligible it goes to -2.
C11_AlternativeOrder ==
  [][\A d \in DOMAIN doctors, t \in AltTimes, s \in Sources :
       (AllocateToken(d, t, s) /\ PreferredFails(d, t, PriorityOf(s)))
       => \A k \in 1..Len(OffsetOrder) :
            (/\ EligibleHour(d, hourOfText[t] + OffsetOrder[k], PriorityOf(s))
             /\ \A j \in 1..(k - 1) :
                  ~EligibleHour(d, hourOfText[t] + OffsetOrder[j], PriorityOf(s)))
            => /\ result'.success
               /\ result'.token = NewToken
               /\ NewToken \in tokens'
               /\ OccupiesHour(doctors', d, hourOfText[t] + OffsetOrder[k], NewToken)
               /\ objs'[NewToken].slotTime = hourString(hourOfText[t] + OffsetOrder[k])]_vars

\* a token was sent to 10:00 as the alternative while 09:00 and 11:00 have
\* spare capacity: it asked for 12:00 and both -2 and -1 were eligible
C11_Witness ==
  /\ result.op = "allocateToken"
  /\ result.message = "Token allocated to alternative slot: 10:00"
  /\ \A ref \in SlotRefs :
       SlotAt(ref).startTime \in {"09:00", "11:00"}
       => SlotAt(ref).availableCapacity > 0

-----------------------------------------------------------------------------
(* C12 *)

Distance(a, b) == IF a >= b THEN a - b ELSE b - a

\* C12: a token placed in an alternative slot is never farther from the
\* preferred hour than another eligible slot within two hours of it.
C12_ClosestAlternative ==
  [][\A d \in DOMAIN doctors, t \in AltTimes, s \in Sources :
       (/\ AllocateToken(d, t, s)
        /\ PreferredFails(d, t, PriorityOf(s))
        /\ result'.success)
       => \A k \in 1..Len(OffsetOrder) :
            EligibleHour(d, hourOfText[t] + OffsetOrder[k], PriorityOf(s))
            => Distance(hourOfText[objs'[NewToken].slotTime], hourOfText[t])
                 <= Distance(OffsetOrder[k], 0)]_vars

-----------------------------------------------------------------------------
(* C13 *)

\* the slot stored under the key of the text time exists and admits p
PreferredAdmits(d, time, p) ==
  \E i \in 1..Len(doctors[d].slots) :
    /\ doctors[d].slots[i].key = slotKeyOf(d, time)
    /\ Admits(doctors[d].slots[i].slot, p)

\* some slot at an alternative offset from hour h exists and admits p
AlternativeAdmits(d, h, p) ==
  \E k \in 1..Len(OffsetOrder) : EligibleHour(d, h + OffsetOrder[k], p)

\* the step left the created token at the tail of the queue, unregistered,
\* with every slot as it was
QueuedAtTail ==
  /\ result'.success = FALSE
  /\ result'.token = NewToken
  /\ waitingQueue' = Append(waitingQueue, NewToken)
  /\ NewToken \notin tokens'
  /\ doctors' = doctors

\* the step left the created token in exactly one slot, one of hour h or of
\* an alternative offset from it, and not in the queue
PlacedOnceAround(d, h) ==
  /\ Cardinality(SlotPlacesOf(Len(objs))') = 1
  /\ \E o \in {0, -2, -1, 1, 2} : OccupiesHour(doctors', d, h + o, NewToken)
  /\ \A k \in 1..Len(waitingQueue') : waitingQueue'[k] # NewToken

\* C13 (as stated): for a registered provider the created token ends at the
\* tail of the queue exactly when no slot at offset 0, -2, -1, +1, +2 from the
\* preferred hour admits it; otherwise it occupies exactly one of those slots.
C13_QueuedIffNoHourAdmits ==
  [][\A d \in DOMAIN doctors, t \in AltTimes, s \in Sources :
       AllocateToken(d, t, s)
       => LET p == PriorityOf(s)
              h == hourOfText[t]
              reach == EligibleHour(d, h, p) \/ AlternativeAdmits(d, h, p)
          IN /\ QueuedAtTail <=> ~reach
             /\ reach => PlacedOnceAround(d, h)]_vars

\* C13 (amended): for a registered provider the created token ends at the
\* tail of the queue exactly when neither the slot stored under preferredTime
\* itself nor a slot at offset -2, -1, +1, +2 from the preferred hour admits
\* it; otherwise it occupies exactly one of those slots.
C13_QueuedIffNoSlotAdmits ==
  [][\A d \in DOMAIN doctors, t \in AltTimes, s \in Sources :
       AllocateToken(d, t, s)
       => LET p == PriorityOf(s)
              h == hourOfText[t]
              reach == PreferredAdmits(d, t, p) \/ AlternativeAdmits(d, h, p)
          IN /\ QueuedAtTail <=> ~reach
             /\ reach => PlacedOnceAround(d, h)]_vars

\* a token was queued behind another one although a slot of the provider
\* still has spare capacity, out of reach of its preferred time
C13_Witness ==
  /\ result.op = "allocateToken"
  /\ result.message = "No slots available, added to waiting queue"
  /\ Len(waitingQueue) >= 2
  /\ waitingQueue[Len(waitingQueue)] = result.token
  /\ \E ref \in SlotRefs : ~IsFull(SlotAt(ref))

-----------------------------------------------------------------------------
(* C14 *)

\* the slot stored under the key of the text time exists with spare capacity
PreferredHasRoom(d, time) ==
  \E i \in 1..Len(doctors[d].slots) :
    /\ doctors[d].slots[i].key = slotKeyOf(d, time)
    /\ Len(doctors[d].slots[i].slot.tokens) < doctors[d].slots[i].slot.maxCapacity

\* C14: when the preferred slot exists with spare capacity, allocateToken
\* appends the created token to it, registers it, returns success with
\* slotTime = preferredTime, and leaves every other slot, every former
\* occupant and the waiting queue as they were.
C14_DirectPlacementFrame ==
  [][\A d \in DOMAIN doctors, t \in AltTimes, s \in Sources :
       (AllocateToken(d, t, s) /\ PreferredHasRoom(d, t))
       => /\ result'.success
          /\ result'.token = NewToken
          /\ result'.message = "Token allocated successfully"
          /\ objs'[NewToken].slotTime = t
          /\ tokens' = tokens \cup {NewToken}
          /\ waitingQueue' = waitingQueue
          /\ DOMAIN doctors' = DOMAIN doctors
          /\ Len(doctors'[d].slots) = Len(doctors[d].slots)
          /\ \A i \in 1..Len(doctors[d].slots) :
               IF doctors[d].slots[i].key = slotKeyOf(d, t)
               THEN doctors'[d].slots[i].slot.tokens
                      = Append(doctors[d].slots[i].slot.tokens, NewToken)
               ELSE doctors'[d].slots[i] = doctors[d].slots[i]]_vars

\* a priority token joined, at its preferred time, a slot that still holds a
\* token of lower priority, while another token waits in the queue
C14_Witness ==
  /\ result.op = "allocateToken"
  /\ result.message = "Token allocated successfully"
  /\ waitingQueue # << >>
  /\ \E ref \in SlotRefs :
       /\ \E k \in 1..Len(SlotAt(ref).tokens) : SlotAt(ref).tokens[k] = result.token
       /\ \E k \in 1..Len(SlotAt(ref).tokens) :
            objs[SlotAt(ref).tokens[k]].priority < objs[result.token].priority

-----------------------------------------------------------------------------
(* C15 *)

\* the tokens, in order, of the slot of provider d that starts at the time
TokensAt(d, time) ==
  LET hits == {i \in 1..Len(doctors[d].slots) :
                 doctors[d].slots[i].slot.startTime = time}
  IN IF hits = {} THEN << >>
     ELSE doctors[d].slots[CHOOSE i \in hits : TRUE].slot.tokens

\* exactly n requests were made so far and the first m of them were walkins
Requested(n, m) ==
  /\ Len(objs) = n
  /\ \A i \in 1..m : objs[i].source = "walkin"

\* the walkins that fill the 09:00 slot all succeed at 09:00
FillingWalkinsPlaced ==
  \A d \in DOMAIN doctors, n \in 1..MaxCapacity :
    (Requested(n, n) /\ result.op = "allocateToken")
    => /\ result.success
       /\ objs[n].slotTime = "09:00"
       /\ TokensAt(d, "09:00") = [i \in 1..n |-> i]

\* the request after the walkin that did not fit is of the priority source
PriorityFollows ==
  /\ Requested(MaxCapacity + 2, MaxCapacity + 1)
  /\ objs[MaxCapacity + 2].source = "priority"
  /\ result.op = "allocateToken"

\* C15 (as stated): with the 09:00 slot filled by walkins, one more walkin
\* for 09:00 is queued; a priority request for 09:00 then takes the place of
\* a walkin, the slot stays full, and the queue holds the walkin that did not
\* fit followed by the evicted one.
C15_ExtraWalkinQueued ==
  /\ FillingWalkinsPlaced
  /\ \A d \in DOMAIN doctors :
       /\ (Requested(MaxCapacity + 1, MaxCapacity + 1) /\ result.op = "allocateToken")
          => /\ ~result.success
             /\ waitingQueue = <<MaxCapacity + 1>>
             /\ ~InSomeSlot(MaxCapacity + 1)
       /\ PriorityFollows
          => /\ result.success
             /\ objs[MaxCapacity + 2].slotTime = "09:00"
             /\ Len(TokensAt(d, "09:00")) = MaxCapacity
             /\ Len(waitingQueue) = 2
             /\ waitingQueue[1] = MaxCapacity + 1
             /\ waitingQueue[2] \in 1..MaxCapacity

\* C15 (amended): with the 09:00 slot filled by walkins, one more walkin for
\* 09:00 succeeds at the alternative slot 10:00 and nothing is queued; a
\* priority request for 09:00 then takes the place of the first walkin, the
\* 09:00 slot stays full, and the queue holds the evicted walkin alone.
C15_ExtraWalkinMovedToNextHour ==
  /\ FillingWalkinsPlaced
  /\ \A d \in DOMAIN doctors :
       /\ (Requested(MaxCapacity + 1, MaxCapacity + 1) /\ result.op = "allocateToken")
          => /\ result.success
             /\ result.message = "Token allocated to alternative slot: 10:00"
             /\ objs[MaxCapacity + 1].slotTime = "10:00"
             /\ TokensAt(d, "09:00") = [i \in 1..MaxCapacity |-> i]
             /\ TokensAt(d, "10:00") = <<MaxCapacity + 1>>
             /\ waitingQueue = << >>
       /\ PriorityFollows
          => /\ result.success
             /\ result.message = "Token allocated successfully"
             /\ objs[MaxCapacity + 2].slotTime = "09:00"
             /\ TokensAt(d, "09:00")
                  = [i \in 1..MaxCapacity |->
                       IF i < MaxCapacity THEN i + 1 ELSE MaxCapacity + 2]
             /\ TokensAt(d, "10:00") = <<MaxCapacity + 1>>
             /\ waitingQueue = <<1>>
             /\ tokens = 1..(MaxCapacity + 2)

\* the scenario ran to its end
C15_Witness ==
  /\ PriorityFollows
  /\ waitingQueue # << >>

-----------------------------------------------------------------------------
(* C16 *)

\* token id is registered and occupies the slot stored under its slotTime,
\* and every slot of its provider is full: cancelling it frees the only
\* spare unit of the provider
FreesOnlyUnit(id) ==
  /\ id \in tokens
  /\ \E ref \in SlotRefs :
       /\ ref[1] = objs[id].doctorId
       /\ doctors[ref[1]].slots[ref[2]].key = slotKeyOf(ref[1], objs[id].slotTime)
       /\ \E k \in 1..Len(SlotAt(ref).tokens) : SlotAt(ref).tokens[k] = id
  /\ \A ref \in SlotRefs : ref[1] = objs[id].doctorId => IsFull(SlotAt(ref))

\* no token queued behind the head has strictly greater priority than it
HeadNotOutranked ==
  \A k \in 2..Len(waitingQueue) :
    objs[waitingQueue[k]].priority <= objs[waitingQueue[1]].priority

\* the token occupies a slot after the step
InSomeSlotAfter(docs, id) ==
  \E d \in DOMAIN docs : \E i \in 1..Len(docs[d].slots) :
    \E k \in 1..Len(docs[d].slots[i].slot.tokens) :
      docs[d].slots[i].slot.tokens[k] = id

\* C16 (as stated): when cancelToken frees the only spare unit of the
\* provider, the earliest-queued token occupies a slot after the call,
\* whatever the priorities of the tokens queued behind it.
C16_HeadOfQueueSettled ==
  [][\A id \in 1..Len(objs) :
       (CancelToken(id) /\ FreesOnlyUnit(id) /\ waitingQueue # << >>)
       => InSomeSlotAfter(doctors', waitingQueue[1])]_vars

\* C16 (amended): when cancelToken frees the only spare unit of the
\* provider, the earliest-queued token is the first one the replay places;
\* it still occupies a slot after the call if no token queued behind it has
\* strictly greater priority.
C16_HeadOfQueuePlacedFirst ==
  [][\A id \in 1..Len(objs) :
       (CancelToken(id) /\ FreesOnlyUnit(id) /\ waitingQueue # << >>)
       => /\ result'.reallocated # << >>
          /\ result'.reallocated[1] = waitingQueue[1]
          /\ HeadNotOutranked
             => /\ InSomeSlotAfter(doctors', waitingQueue[1])
                /\ \A k \in 1..Len(waitingQueue') :
                     waitingQueue'[k] # waitingQueue[1]]_vars

\* a cancellation just freed a unit that the head of the queue now holds
\* while a token of lower or equal priority still waits behind it
C16_Witness ==
  /\ result.op = "cancelToken"
  /\ result.success
  /\ Len(result.reallocated) = 1
  /\ InSomeSlot(result.reallocated[1])
  /\ waitingQueue # << >>
  /\ \A ref \in SlotRefs : IsFull(SlotAt(ref))

-----------------------------------------------------------------------------
(* C17 *)

UndefinedRates == {"NaN%", "Infinity%", "-Infinity%"}

\* C17: getSystemStats with no slot registered reports totalCapacity 0 and a
\* utilization that is a number, never NaN or Infinity.
C17_UtilizationDefinedWithoutSlots ==
  (result.op = "getSystemStats" /\ SlotRefs = {})
  => /\ result.value.totalCapacity = 0
     /\ result.value.utilizationRate \notin UndefinedRates

-----------------------------------------------------------------------------
(* C18 *)

\* the engine as it is after the step
EngineAfter ==
  [doctors |-> doctors', tokens |-> tokens', waitingQueue |-> waitingQueue',
   objs |-> objs', bumped |-> << >>]

\* C18: getDoctorSchedule and getSystemStats leave the slots (the stored
\* order of their tokens included), the registry and the waiting queue as
\* they were, and the same view called again right after returns the same
\* value.
C18_ViewsChangeNothing ==
  [][/\ GetSystemStats
        => /\ EngineUnchanged
           /\ getSystemStats(EngineAfter).value = result'.value
     /\ \A d \in DoctorIds \cup {UnknownDoctorId} :
          GetDoctorSchedule(d)
          => /\ EngineUnchanged
             /\ getDoctorSchedule(EngineAfter, d).value = result'.value]_vars

\* a schedule was returned whose row lists a priority token before a walkin
\* while the slot itself still stores the walkin first
C18_Witness ==
  /\ result.op = "getDoctorSchedule"
  /\ ~result.value.isNull
  /\ \E i \in 1..Len(result.value.schedule) :
       LET row == result.value.schedule[i]
       IN /\ Len(row.tokens) = 2
          /\ row.tokens[1].priority > row.tokens[2].priority
          /\ \E ref \in SlotRefs :
               SlotAt(ref).tokens = <<row.tokens[2].id, row.tokens[1].id>>

-----------------------------------------------------------------------------
(* C19 *)

EngineOperations ==
  {"allocateToken", "cancelToken", "insertEmergencyToken", "processWaitingQueue"}

\* C19: at the end of every engine operation no token waits in the queue
\* while some slot of its provider has spare capacity.
C19_NoWaitingBesideSpareCapacity ==
  result.op \in EngineOperations
  => \A k \in 1..Len(waitingQueue) :
       \A ref \in SlotRefs :
         ref[1] = objs[waitingQueue[k]].doctorId => IsFull(SlotAt(ref))

-----------------------------------------------------------------------------
(* C20 *)

\* some slot of the token's provider admits the token
HasEligibleSlot(id) ==
  \E ref \in SlotRefs :
    /\ ref[1] = objs[id].doctorId
    /\ Admits(SlotAt(ref), objs[id].priority)

-----------------------------------------------------------------------------
(* C21 *)

\* the queue positions whose token has an eligible slot
EligiblePositions == {k \in 1..Len(waitingQueue) : HasEligibleSlot(waitingQueue[k])}

\* the token is registered and is in no slot: it waits in the queue or was
\* cancelled before
KnownOutsideSlots(id) == id \in tokens /\ ~InSomeSlot(id)

-----------------------------------------------------------------------------
(* C22 *)

\* C22: a token's priority is the one the table gives for its source (2 for
\* a source the table does not have), and the id, source, priority and
\* provider of an existing token are the same after every step.
C22_PriorityFixedAtCreation ==
  [][\A id \in 1..Len(objs') :
       /\ objs'[id].id = id
       /\ objs'[id].priority = PriorityOf(objs'[id].source)
       /\ id <= Len(objs)
          => /\ objs'[id].id = objs[id].id
             /\ objs'[id].source = objs[id].source
             /\ objs'[id].priority = objs[id].priority
             /\ objs'[id].doctorId = objs[id].doctorId]_vars

\* a token of a source the table does not have was evicted and waits, next
\* to a cancelled token
C22_Witness ==
  /\ \E k \in 1..Len(waitingQueue) :
       /\ objs[waitingQueue[k]].source = "referral"
       /\ waitingQueue[k] \in tokens
  /\ \E id \in 1..Len(objs) : objs[id].status = STATUS_CANCELLED

-----------------------------------------------------------------------------
(* C23 *)

\* a step that makes one placement of a created token: an allocation, or an
\* emergency insertion with nothing waiting
SinglePlacementStep ==
  \/ \E d \in DoctorIds, t \in Times, s \in PreemptSources :
       AllocateToken(d, t, s)
  \/ /\ waitingQueue = << >>
     /\ \E d \in DoctorIds, t \in Times : InsertEmergencyToken(d, t)

\* the slot at ref is full and holds the created token after the step: the
\* token was admitted by preemption
AdmittedByPreemption(ref) ==
  /\ IsFull(SlotAt(ref))
  /\ Len(objs') = Len(objs) + 1
  /\ \E k \in 1..Len(doctors'[ref[1]].slots[ref[2]].slot.tokens) :
       doctors'[ref[1]].slots[ref[2]].slot.tokens[k] = NewToken

\* the position of the occupant that is to go: lowest priority among those
\* strictly below p, the earliest of them
VictimPosition(slot, p) ==
  CHOOSE k \in 1..Len(slot.tokens) :
    /\ objs[slot.tokens[k]].priority < p
    /\ \A j \in 1..Len(slot.tokens) :
         objs[slot.tokens[j]].priority < p
         => objs[slot.tokens[k]].priority <= objs[slot.tokens[j]].priority
    /\ \A j \in 1..(k - 1) :
         objs[slot.tokens[j]].priority # objs[slot.tokens[k]].priority

\* the slot's tokens without the one at position k
Without(tokenSeq, k) ==
  SubSeq(tokenSeq, 1, k - 1) \o SubSeq(tokenSeq, k + 1, Len(tokenSeq))

\* C23: when a full slot admits a token by preemption, the occupant that
\* leaves is the one of lowest priority among those strictly below the
\* incoming token, the earliest in the slot's sequence among equals.
C23_LowestEarliestEvicted ==
  [][\A ref \in SlotRefs :
       (SinglePlacementStep /\ AdmittedByPreemption(ref))
       => LET k == VictimPosition(SlotAt(ref), objs'[NewToken].priority)
          IN /\ \E j \in 1..Len(SlotAt(ref).tokens) :
                  objs[SlotAt(ref).tokens[j]].priority < objs'[NewToken].priority
             /\ doctors'[ref[1]].slots[ref[2]].slot.tokens
                  = Append(Without(SlotAt(ref).tokens, k), NewToken)]_vars

\* a priority token took the place of a walkin that stood behind an online
\* token in the slot
C23_Witness ==
  /\ result.op = "allocateToken"
  /\ result.success
  /\ Len(result.bumped) = 1
  /\ objs[result.bumped[1].evicted].priority = 2
  /\ \E ref \in SlotRefs :
       /\ Len(SlotAt(ref).tokens) = 2
       /\ objs[SlotAt(ref).tokens[1]].priority = 4
       /\ SlotAt(ref).tokens[2] = result.token
       /\ objs[result.bumped[1].evicted].id > SlotAt(ref).tokens[1]

-----------------------------------------------------------------------------
(* C24 *)

\* the tokens that occupy a slot before the step and none after it
EvictedByStep ==
  {id \in 1..Len(objs) : InSomeSlot(id) /\ ~InSomeSlotAfter(doctors', id)}

\* C24: a placement evicts at most one occupant; after a preemption the slot
\* holds maxCapacity tokens with the incoming one last, and the evicted token
\* is the new last element of the queue, itself unchanged, behind the
\* entries the queue had.
C24_PreemptionMovesOneToken ==
  [][SinglePlacementStep
     => /\ Cardinality(EvictedByStep) <= 1
        /\ \A ref \in SlotRefs :
             AdmittedByPreemption(ref)
             => LET after == doctors'[ref[1]].slots[ref[2]].slot
                IN /\ Len(after.tokens) = after.maxCapacity
                   /\ after.tokens[Len(after.tokens)] = NewToken
                   /\ Cardinality(EvictedByStep) = 1
                   /\ \A id \in EvictedByStep :
                        /\ waitingQueue' = Append(waitingQueue, id)
                        /\ objs'[id] = objs[id]]_vars

\* an allocation evicted a token that now waits last, behind a token that
\* was already waiting
C24_Witness ==
  /\ result.op = "allocateToken"
  /\ result.success
  /\ Len(result.bumped) = 1
  /\ Len(waitingQueue) >= 2
  /\ waitingQueue[Len(waitingQueue)] = result.bumped[1].evicted
  /\ \A ref \in SlotRefs : IsFull(SlotAt(ref))

-----------------------------------------------------------------------------
(* C25 *)

\* the hours of the slots of the token's provider that admit the token
EligibleHoursOf(id) ==
  {hourOfText[SlotAt(ref).startTime] :
     ref \in {r \in SlotRefs : /\ r[1] = objs[id].doctorId
                               /\ Admits(SlotAt(r), objs[id].priority)}}

\* the <<provider, entry, position>> places that hold the token in docs
SlotPlacesIn(docs, id) ==
  UNION {UNION {{<<d, i, k>> : k \in {j \in 1..Len(docs[d].slots[i].slot.tokens) :
                                        docs[d].slots[i].slot.tokens[j] = id}} :
                i \in 1..Len(docs[d].slots)} : d \in DOMAIN docs}

\* the earliest queue position whose token has an eligible slot
FirstEligiblePosition ==
  CHOOSE k \in EligiblePositions : \A j \in EligiblePositions : k <= j

\* C25: the first queued token a replay can place goes to the earliest hour
\* among the slots of its provider that admit it, whatever slot time it
\* carried, and its slotTime becomes that slot's start time; it is found
\* there after the pass unless the pass evicted it again.
C25_ReplayTakesEarliestSlot ==
  [][(ProcessWaitingQueue /\ EligiblePositions # {})
     => LET q == waitingQueue[FirstEligiblePosition]
            h == CHOOSE x \in EligibleHoursOf(q) :
                   \A y \in EligibleHoursOf(q) : x <= y
        IN /\ result'.reallocated # << >>
           /\ result'.reallocated[1] = q
           /\ (\A k \in 1..Len(result'.bumped) : result'.bumped[k].evicted # q)
              => /\ OccupiesHour(doctors', objs[q].doctorId, h, q)
                 /\ Cardinality(SlotPlacesIn(doctors', q)) = 1
                 /\ objs'[q].slotTime = hourString(h)]_vars

\* a replay moved a token to the 10:00 slot, the 09:00 slot being full of
\* tokens it could not displace
C25_Witness ==
  /\ result.op = "processWaitingQueue"
  /\ Len(result.reallocated) = 1
  /\ objs[result.reallocated[1]].slotTime = "10:00"
  /\ \E ref \in SlotRefs :
       /\ SlotAt(ref).startTime = "10:00"
       /\ SlotAt(ref).tokens = <<result.reallocated[1]>>
  /\ \E ref \in SlotRefs :
       /\ SlotAt(ref).startTime = "09:00"
       /\ IsFull(SlotAt(ref))

-----------------------------------------------------------------------------
(* C26 *)

\* C26: allocateToken leaves every token that was waiting at its position in
\* the queue and appends at most one token: the created one when it could
\* not be placed, or the one occupant it displaced.
C26_AllocationNeverReplays ==
  [][\A d \in DoctorIds \cup {UnknownDoctorId}, t \in Times, s \in Sources :
       AllocateToken(d, t, s)
       => /\ Len(waitingQueue') >= Len(waitingQueue)
          /\ Len(waitingQueue') <= Len(waitingQueue) + 1
          /\ SubSeq(waitingQueue', 1, Len(waitingQueue)) = waitingQueue
          /\ Len(waitingQueue') = Len(waitingQueue) + 1
             => LET added == waitingQueue'[Len(waitingQueue')]
                IN IF result'.success
                   THEN added # result'.token /\ InSomeSlot(added)
                   ELSE added = result'.token /\ EvictedByStep = {}]_vars

\* an allocation succeeded and left a token waiting although a slot of its
\* provider has spare capacity
C26_Witness ==
  /\ result.op = "allocateToken"
  /\ result.success
  /\ waitingQueue # << >>
  /\ \E k \in 1..Len(waitingQueue) :
       \E ref \in SlotRefs :
         /\ ref[1] = objs[waitingQueue[k]].doctorId
         /\ ~IsFull(SlotAt(ref))

-----------------------------------------------------------------------------
(* C27 *)

\* the empty slot of provider d for the hour h
EmptySlotOfHour(d, h) ==
  [doctorId |-> d, startTime |-> hourString(h), endTime |-> hourString(h + 1),
   maxCapacity |-> MaxCapacity, tokens |-> << >>,
   availableCapacity |-> MaxCapacity]

\* C27: addDoctor gives the provider exactly one empty slot of full capacity
\* for each whole hour from its start hour up to, not including, its end
\* hour, in ascending order (none when the end is not after the start), and
\* leaves the registry, the queue, the tokens and every other provider as
\* they were.
C27_RegistrationCreatesHourSlots ==
  [][\A d \in ProviderIds, wh \in AnyWorkingHours :
       AddDoctor(d, wh)
       => LET from == hourOfText[wh.start]
              to == hourOfText[wh.end]
              hours == {h \in ParsableHours : from <= h /\ h < to}
          IN /\ DOMAIN doctors' = DOMAIN doctors \cup {d}
             /\ Len(doctors'[d].slots) = Cardinality(hours)
             /\ \A i \in 1..Len(doctors'[d].slots) :
                  /\ doctors'[d].slots[i].slot = EmptySlotOfHour(d, from + i - 1)
                  /\ doctors'[d].slots[i].key = d \o "-" \o hourString(from + i - 1)
             /\ \A other \in DOMAIN doctors \ {d} : doctors'[other] = doctors[other]
             /\ tokens' = tokens
             /\ waitingQueue' = waitingQueue
             /\ objs' = objs]_vars

\* a second provider was registered with two slots while the first one
\* holds a token and another token waits
C27_Witness ==
  /\ result.op = "addDoctor"
  /\ DOMAIN doctors = ProviderIds
  /\ \E d \in ProviderIds :
       /\ Len(doctors[d].slots) = 2
       /\ \A i \in 1..2 : doctors[d].slots[i].slot.tokens = << >>
  /\ tokens # {}
  /\ waitingQueue # << >>

-----------------------------------------------------------------------------
(* C28 *)

\* C28: after addDoctor, also under an id that was registered before, every
\* registered token that is not cancelled occupies exactly one slot or waits
\* in the queue.
C28_ReRegistrationKeepsTokens ==
  result.op = "addDoctor"
  => \A id \in tokens :
       objs[id].status # STATUS_CANCELLED
       => \/ Cardinality(SlotPlacesOf(id)) = 1
          \/ InQueue(id)

-----------------------------------------------------------------------------
(* C29 *)

\* the row describes the slot: its time, capacity and counts, and the
\* slot's occupants, each once, highest priority first
RowDescribes(row, slot) ==
  /\ row.time = slot.startTime \o "-" \o slot.endTime
  /\ row.capacity = slot.maxCapacity
  /\ row.allocated = Len(slot.tokens)
  /\ row.available = row.capacity - row.allocated
  /\ Len(row.tokens) = Len(slot.tokens)
  /\ \A k \in 1..Len(slot.tokens) :
       Cardinality({j \in 1..Len(row.tokens) :
                      row.tokens[j].id = slot.tokens[k]}) = 1
  /\ \A j \in 1..Len(row.tokens) :
       /\ row.tokens[j].priority = objs[row.tokens[j].id].priority
       /\ j > 1 => row.tokens[j - 1].priority >= row.tokens[j].priority

\* C29: getDoctorSchedule returns null for an unknown provider, otherwise
\* one row per slot in ascending start time, each row with the slot's
\* occupant count, its remaining capacity and its occupants in
\* non-increasing priority order.
C29_ScheduleRows ==
  result.op = "getDoctorSchedule"
  => IF result.doctorId \notin DOMAIN doctors
     THEN result.value.isNull
     ELSE LET slots == doctors[result.doctorId].slots
              schedule == result.value.schedule
          IN /\ ~result.value.isNull
             /\ result.value.doctor.id = result.doctorId
             /\ Len(schedule) = Len(slots)
             /\ \A i \in 1..Len(schedule) :
                  /\ \E j \in 1..Len(slots) : RowDescribes(schedule[i], slots[j].slot)
                  /\ i > 1 => hourOfText[SubSeq(schedule[i - 1].time, 1, 5)]
                                < hourOfText[SubSeq(schedule[i].time, 1, 5)]

\* a schedule of two rows was returned, the first for a full slot whose
\* priority token joined after a walkin, the second for an empty slot
C29_Witness ==
  /\ result.op = "getDoctorSchedule"
  /\ ~result.value.isNull
  /\ Len(result.value.schedule) = 2
  /\ result.value.schedule[1].available = 0
  /\ result.value.schedule[1].tokens[1].priority = 8
  /\ result.value.schedule[1].tokens[1].id > result.value.schedule[1].tokens[2].id
  /\ result.value.schedule[2].allocated = 0

-----------------------------------------------------------------------------
(* C30 *)

\* the answered requests whose token occupies the slot
RequestsHolding(slot) ==
  {i \in 1..Len(http) :
     /\ http[i].state = "done"
     /\ \E k \in 1..Len(slot.tokens) : slot.tokens[k] = http[i].token}

\* C30: whatever the order in which the handlers of concurrent allocate,
\* emergency and cancel requests run, every slot holds at most maxCapacity
\* tokens with its capacity counter in step, no two requests were answered
\* with the same token, and the requests whose tokens occupy a slot are at
\* most maxCapacity.
C30_RequestsNeverShareAUnit ==
  /\ \A ref \in SlotRefs :
       /\ Len(SlotAt(ref).tokens) <= SlotAt(ref).maxCapacity
       /\ SlotAt(ref).availableCapacity
            = SlotAt(ref).maxCapacity - Len(SlotAt(ref).tokens)
       /\ Cardinality(RequestsHolding(SlotAt(ref))) <= SlotAt(ref).maxCapacity
  /\ \A i, j \in 1..Len(http) :
       (i # j /\ http[i].token # NoToken /\ http[j].token # NoToken)
       => http[i].token # http[j].token

\* two walkin requests for 09:00 waited at the same time while the slot had
\* one unit left; both are answered, the later arrival was handled first
\* and holds the unit, the other one waits in the queue
C30_Witness ==
  /\ Len(http) = 3
  /\ \A i \in 1..3 : http[i].state = "done" /\ http[i].source = "walkin"
  /\ 2 \in http[3].overlapped
  /\ http[3].success
  /\ ~http[2].success
  /\ \E ref \in SlotRefs : SlotAt(ref).tokens = <<http[1].token, http[3].token>>
  /\ waitingQueue = <<http[2].token>>

-----------------------------------------------------------------------------
(* C31 *)

\* the loop, from where it is, ends as the call made in one piece from the
\* engine it found does
PassFollowsReplay ==
  pass # NoPass =>
    LET rest == replayFrom([Engine EXCEPT !.bumped = pass.bumped], pass.i,
                           pass.reallocated, pass.stillWaiting, pass.visited)
        whole == processWaitingQueue(pass.start)
    IN rest = whole

\* C31: every call of processWaitingQueue returns, from every reachable
\* state: the loop that has been entered reaches the end of the queue, also
\* when its placements evict occupants that are pushed to the queue it is
\* iterating.
C31_ReplayTerminates == (pass # NoPass) ~> (pass = NoPass)

\* the loop is at a token that an eviction of this call pushed, and that
\* eviction was made by a token that an earlier eviction of this call pushed
C31_Witness ==
  /\ pass # NoPass
  /\ pass.i <= Len(waitingQueue)
  /\ pass.i > Len(pass.start.waitingQueue)
  /\ Len(pass.bumped) >= 2
  /\ pass.bumped[2].by = pass.bumped[1].evicted
  /\ waitingQueue[pass.i] = pass.bumped[2].evicted

-----------------------------------------------------------------------------
(* C32 *)

\* the tokens held by the slots of docs or by queue
TokensHeld(docs, queue) ==
  {id \in 1..Len(objs) : SlotPlacesIn(docs, id) # {} \/ IsIn(queue, id)}

\* C32: a call of processWaitingQueue leaves the set of tokens held in
\* slots or in the waiting queue as it found it, creates no token, and every
\* token evicted during the call is, when it returns, in a slot or in the
\* waiting queue.
C32_ReplayConservesTokens ==
  [][ProcessWaitingQueue =>
       /\ TokensHeld(doctors', waitingQueue') = TokensHeld(doctors, waitingQueue)
       /\ Len(objs') = Len(objs)
       /\ tokens' = tokens
       /\ \A k \in 1..Len(result'.bumped) :
            \/ SlotPlacesIn(doctors', result'.bumped[k].evicted) # {}
            \/ IsIn(waitingQueue', result'.bumped[k].evicted)]_vars

\* processWaitingQueue has returned after a placement of the pass evicted
\* an occupant; the evicted token waits in the queue that replaced the one
\* iterated
C32_Witness ==
  /\ result.op = "processWaitingQueue"
  /\ Len(result.bumped) = 1
  /\ result.reallocated = <<result.bumped[1].by>>
  /\ InSomeSlot(result.bumped[1].by)
  /\ InQueue(result.bumped[1].evicted)
  /\ ~InSomeSlot(result.bumped[1].evicted)

-----------------------------------------------------------------------------
(* C33 *)

\* C33: a call of processWaitingQueue made right after another one places
\* no token, evicts none, and leaves the slots, the waiting queue (contents
\* and order), the registry and the token objects as they were.
C33_ReplayIdempotent ==
  [][(result.op = "processWaitingQueue" /\ ProcessWaitingQueue) =>
       /\ EngineUnchanged
       /\ result'.reallocated = << >>
       /\ result'.bumped = << >>
       /\ result'.visited = waitingQueue]_vars

\* a call of processWaitingQueue has just placed a token by evicting an
\* occupant and left two tokens waiting, the evicted one behind one that was
\* refused: the engine a second call starts from
C33_Witness ==
  /\ result.op = "processWaitingQueue"
  /\ Len(result.reallocated) = 1
  /\ Len(result.bumped) = 1
  /\ Len(waitingQueue) = 2
  /\ waitingQueue[2] = result.bumped[1].evicted
  /\ processWaitingQueue(Engine).e = Engine

-----------------------------------------------------------------------------
(* C34 *)

\* C34: every token that occupies a slot or waits in the queue is in the
\* registry this.tokens, and cancelToken called with its id does not answer
\* 'Token not found'.
C34_HeldTokensRegistered ==
  \A id \in 1..Len(objs) :
    (InSomeSlot(id) \/ InQueue(id)) =>
      /\ id \in tokens
      /\ cancelToken(Engine, id).message # "Token not found"

-----------------------------------------------------------------------------
(* C35 *)

\* every occupant of a slot carries the start time and the provider of
\* that slot
SlotTimeNamesSlot ==
  \A ref \in SlotRefs : \A k \in 1..Len(SlotAt(ref).tokens) :
    /\ objs[SlotAt(ref).tokens[k]].slotTime = SlotAt(ref).startTime
    /\ objs[SlotAt(ref).tokens[k]].doctorId = ref[1]
    /\ SlotAt(ref).doctorId = ref[1]

\* the slot position of an occupant
PlaceOf(id) == CHOOSE place \in SlotPlacesOf(id) : TRUE

\* the engine when cancelToken has removed the token and set its status,
\* and has not yet called processWaitingQueue (lines 167-183)
BeforeReplay(id) == cancelToken_noReplay(Engine, id).e

\* C35: every occupant of a slot carries that slot's start time and
\* provider; so cancelToken called for a token that occupies a slot succeeds,
\* the token is in no slot afterwards, and before the replay refills it the
\* slot holds one occupant less and has one more unit available.
C35_CancelRemovesOccupant ==
  [][\A id \in 1..Len(objs) :
       (InSomeSlot(id) /\ CancelToken(id)) =>
         /\ SlotTimeNamesSlot
         /\ result'.success
         /\ ~InSomeSlotAfter(doctors', id)
         /\ LET ref == PlaceOf(id)[1]
                before == SlotAt(ref)
                freed == BeforeReplay(id).doctors[ref[1]].slots[ref[2]].slot
            IN /\ freed.availableCapacity = before.availableCapacity + 1
               /\ Len(freed.tokens) = Len(before.tokens) - 1]_vars

\* a token placed by the replay occupies a slot without being registered
UnregisteredOccupant ==
  \E id \in 1..Len(objs) : InSomeSlot(id) /\ id \notin tokens

====
